---- MODULE Spec2Model ----
(***************************************************************************)
(* Offer extraction and ranking core of the four retailer scrapers         *)
(* (Amazon, Croma, Flipkart, JioMart): parse_offer turns a raw offer       *)
(* record into an Offer, rank_offers scores, sorts and annotates them.     *)
(*                                                                         *)
(* Text.  A description is a sequence of lower-case tokens: every regular  *)
(* expression of the source is searched with re.IGNORECASE and every       *)
(* keyword test is made on description.lower(), so case carries nothing.   *)
(* A word token is [w |-> word], a number token is [w |-> "#", n |-> k]    *)
(* (the digits a numeric capture group holds), "rupee" is the  *)
(* currency sign, "%" "," ":" are the punctuation marks.  Tokens are       *)
(* separated by white space except that punctuation is attached to the     *)
(* token before it.  A regular expression is modelled by the token         *)
(* pattern it accepts; re.search returns the leftmost match.               *)
(*                                                                         *)
(* Numbers.  The source computes in floats.  The model computes the same   *)
(* rationals exactly: a score is held multiplied by Scale(product_price)   *)
(* (twice the absolute price), a net effective price multiplied by 100.    *)
(***************************************************************************)
EXTENDS Integers, Sequences, FiniteSets, TLC

VARIABLES analyzer, offers_data, product_price, pc, parsed_offers,
          all_ranked_offers, raised

(* The state of a scraper's run over a document: the loaded document, the  *)
(* rescrape_all flag, the selected store links, the loop index, the        *)
(* visited-URL set and file, the attempts of the last fetch, the URLs      *)
(* fetched so far, the progress backups and the output file.               *)
VARIABLES data, rescrape_all, links, idx, visited_urls, visited_file,
          attempts, fetched, backups, output_file

runVars == <<data, rescrape_all, links, idx, visited_urls, visited_file,
             attempts, fetched, backups, output_file>>

vars == <<analyzer, offers_data, product_price, pc, parsed_offers,
          all_ranked_offers, raised, data, rescrape_all, links, idx,
          visited_urls, visited_file, attempts, fetched, backups, output_file>>

(* The four analyzer classes. *)
Analyzers == {"amazon", "croma", "flipkart", "jiomart"}

(* Python's None for a numeric field and for a string field. *)
NoneF == -1
NoneS == "None"

W(s) == [w |-> s, n |-> 0]
N(k) == [w |-> "#", n |-> k]

Min(S) == CHOOSE x \in S : \A y \in S : x <= y
Max2(x, y) == IF x >= y THEN x ELSE y
Min2(x, y) == IF x <= y THEN x ELSE y
Abs(x) == IF x < 0 THEN -x ELSE x

(* The token at position i, or a token no pattern accepts. *)
Tok(toks, i) == IF i \in 1..Len(toks) THEN toks[i] ELSE W("")
IsW(toks, i, S) == Tok(toks, i).w \in S
IsNum(toks, i) == Tok(toks, i).w = "#"

(* The currency alternation (INR or the rupee sign) of the amount          *)
(* patterns; the minimum-spend patterns of Croma, JioMart and Flipkart     *)
(* also accept Rs.                                                         *)
CUR == {"inr", "rupee"}
CURM(a) == IF a = "amazon" THEN {"inr", "rupee"} ELSE {"inr", "rupee", "rs"}

(* re.search: the capture position of the leftmost match of a pattern, or  *)
(* 0 when it matches nowhere.  caps[i] is the position of the captured     *)
(* number when the pattern matches at token i, and 0 otherwise.            *)
Search(caps) ==
  LET hits == {i \in DOMAIN caps : caps[i] # 0}
  IN IF hits = {} THEN 0 ELSE caps[Min(hits)]

(* The first non-zero entry of a sequence of capture positions: the        *)
(* `for pattern in patterns: if match: return` loops.                      *)
FirstHit(caps) ==
  LET hits == {k \in 1..Len(caps) : caps[k] # 0}
  IN IF hits = {} THEN 0 ELSE caps[Min(hits)]

(* ---- extract_amount ---- *)
flat1(toks, i) ==
  IF IsW(toks, i, {"flat"}) /\ IsW(toks, i+1, CUR) /\ IsNum(toks, i+2) THEN i+2 ELSE 0
flat2(toks, i) ==
  IF /\ IsW(toks, i, CUR) /\ IsNum(toks, i+1)
     /\ \/ IsW(toks, i+2, {"discount"})
        \/ IsW(toks, i+2, {"instant"}) /\ IsW(toks, i+3, {"discount"})
  THEN i+1 ELSE 0
flat3(toks, i) ==
  IF IsW(toks, i, CUR) /\ IsNum(toks, i+1) /\ IsW(toks, i+2, {"off", "discount"})
  THEN i+1 ELSE 0
flat4(toks, i) ==
  IF IsW(toks, i, CUR) /\ IsNum(toks, i+1) THEN i+1 ELSE 0
flat5(toks, i) ==
  IF IsW(toks, i, {"rupee"}) /\ IsNum(toks, i+1) THEN i+1 ELSE 0
flat6(toks, i) ==
  IF IsW(toks, i, {"rs"}) /\ IsNum(toks, i+1) THEN i+1 ELSE 0
flat7(toks, i) ==
  IF IsW(toks, i, {"inr"}) /\ IsNum(toks, i+1) THEN i+1 ELSE 0

(* The cap clause "max | maximum | up to", currency, number at token j. *)
CapAt(toks, j) ==
  IF IsW(toks, j, {"max", "maximum"}) /\ IsW(toks, j+1, CUR) /\ IsNum(toks, j+2) THEN j+2
  ELSE IF /\ IsW(toks, j, {"up"}) /\ IsW(toks, j+1, {"to"})
          /\ IsW(toks, j+2, CUR) /\ IsNum(toks, j+3) THEN j+3
  ELSE 0
(* The cap clause "capped at | maximum", currency, number at token j. *)
CappedAt(toks, j) ==
  IF IsW(toks, j, {"maximum"}) /\ IsW(toks, j+1, CUR) /\ IsNum(toks, j+2) THEN j+2
  ELSE IF /\ IsW(toks, j, {"capped"}) /\ IsW(toks, j+1, {"at"})
          /\ IsW(toks, j+2, CUR) /\ IsNum(toks, j+3) THEN j+3
  ELSE 0
(* The lazy wildcard: the first position from j on where the tail matches. *)
Lazy(tails, j) ==
  LET hits == {k \in DOMAIN tails : k >= j /\ tails[k] # 0}
  IN IF hits = {} THEN 0 ELSE tails[Min(hits)]

percent1(toks, i) ==
  LET k == IF IsW(toks, i+2, {"instant"}) THEN i+3 ELSE i+2
  IN IF /\ IsNum(toks, i) /\ IsW(toks, i+1, {"%"})
        /\ IsW(toks, k, {"discount"}) /\ IsW(toks, k+1, {"up"}) /\ IsW(toks, k+2, {"to"})
        /\ IsW(toks, k+3, CUR) /\ IsNum(toks, k+4)
     THEN k+4 ELSE 0
percent2(toks, i) ==
  IF /\ IsW(toks, i, {"up"}) /\ IsW(toks, i+1, {"to"}) /\ IsNum(toks, i+2)
     /\ IsW(toks, i+3, {"%"}) /\ IsW(toks, i+4, {"off", "discount"})
  THEN Lazy([k \in 1..Len(toks) |-> CapAt(toks, k)], i+5) ELSE 0
percent3(toks, i) ==
  IF IsNum(toks, i) /\ IsW(toks, i+1, {"%"}) /\ IsW(toks, i+2, {"off", "discount"})
  THEN Lazy([k \in 1..Len(toks) |-> CappedAt(toks, k)], i+3) ELSE 0

cashback1(toks, i) ==
  IF /\ IsW(toks, i, CUR) /\ IsNum(toks, i+1)
     /\ \/ IsW(toks, i+2, {"cashback"})
        \/ IsW(toks, i+2, {"cash"}) /\ IsW(toks, i+3, {"back"})
  THEN i+1 ELSE 0

(* float(match.group(k).replace(',', '')): a negative n stands for a run   *)
(* of the digit class that float() rejects (ValueError).                   *)
FloatOf(toks, cap) == toks[cap].n

(* The capture position of each pattern of a group (0: no match), in the   *)
(* order of the list.                                                      *)
flat_patterns(a, toks) ==
  LET P == 1..Len(toks)
  IN <<Search([i \in P |-> flat1(toks, i)]),
       Search([i \in P |-> flat2(toks, i)]),
       Search([i \in P |-> flat3(toks, i)]),
       Search([i \in P |-> flat4(toks, i)]),
       Search([i \in P |-> flat5(toks, i)])>>
     \o (IF a = "amazon" THEN <<>>
         ELSE <<Search([i \in P |-> flat6(toks, i)]),
                Search([i \in P |-> flat7(toks, i)])>>)
percent_patterns(a, toks) ==
  LET P == 1..Len(toks)
  IN <<Search([i \in P |-> percent1(toks, i)]),
       Search([i \in P |-> percent2(toks, i)])>>
     \o (IF a = "flipkart" THEN <<>>
         ELSE <<Search([i \in P |-> percent3(toks, i)])>>)
cashback_patterns(a, toks) ==
  LET P == 1..Len(toks)
  IN IF a = "flipkart" THEN <<>>
     ELSE <<Search([i \in P |-> cashback1(toks, i)]),
            Search([i \in P |-> cashback1(toks, i)])>>

(* The percentage patterns tried before the flat patterns. *)
extract_amount_PercentFirst(a, toks) ==
  LET cap == FirstHit(percent_patterns(a, toks) \o flat_patterns(a, toks)
                      \o cashback_patterns(a, toks))
  IN IF cap = 0 THEN 0
     ELSE IF FloatOf(toks, cap) < 0 THEN 0
     ELSE FloatOf(toks, cap)
extract_amount(a, toks) ==
  LET cap == FirstHit(flat_patterns(a, toks) \o percent_patterns(a, toks)
                      \o cashback_patterns(a, toks))
  IN IF cap = 0 THEN 0
     ELSE IF FloatOf(toks, cap) < 0 THEN 0
     ELSE FloatOf(toks, cap)

(* ---- extract_percentage (Croma only) ---- *)
UpTo(toks, i) ==
  IF IsW(toks, i, {"upto"}) THEN i+1
  ELSE IF IsW(toks, i, {"up"}) /\ IsW(toks, i+1, {"to"}) THEN i+2
  ELSE 0
pct1(toks, i) ==
  LET k == UpTo(toks, i)
  IN IF k # 0 /\ IsNum(toks, k) /\ IsW(toks, k+1, {"%"}) THEN k ELSE 0
pct2(toks, i) ==
  IF /\ IsNum(toks, i) /\ IsW(toks, i+1, {"%"}) /\ IsW(toks, i+2, {"off", "discount"})
     /\ ~(IsW(toks, i+3, {"up"}) /\ IsW(toks, i+4, {"to"}))
  THEN i ELSE 0
pct3(toks, i) ==
  IF /\ IsW(toks, i, {"get"}) /\ IsNum(toks, i+1) /\ IsW(toks, i+2, {"%"})
     /\ IsW(toks, i+3, {"off", "discount"})
  THEN i+1 ELSE 0
pct4(toks, i) ==
  IF IsW(toks, i, {"save"}) /\ IsNum(toks, i+1) /\ IsW(toks, i+2, {"%"}) THEN i+1 ELSE 0

extract_percentage(toks) ==
  LET P == 1..Len(toks)
      cap == FirstHit(<<Search([i \in P |-> pct1(toks, i)]),
                        Search([i \in P |-> pct2(toks, i)]),
                        Search([i \in P |-> pct3(toks, i)]),
                        Search([i \in P |-> pct4(toks, i)])>>)
  IN IF cap = 0 THEN NoneF
     ELSE IF FloatOf(toks, cap) < 0 THEN NoneF
     ELSE FloatOf(toks, cap)

(* ---- extract_min_spend ---- *)
Opt(toks, i, S) == IF IsW(toks, i, S) THEN i+1 ELSE i
CurNum(a, toks, i) ==
  IF IsW(toks, i, CURM(a)) /\ IsNum(toks, i+1) THEN i+1 ELSE 0
ms1(a, toks, i) ==
  IF IsW(toks, i, {"mini", "minimum"}) /\ IsW(toks, i+1, {"purchase"}) /\ IsW(toks, i+2, {"value"})
  THEN CurNum(a, toks, Opt(toks, i+3, {"of"})) ELSE 0
ms2(a, toks, i) ==
  IF IsW(toks, i, {"mini", "minimum"}) /\ IsW(toks, i+1, {"purchase", "spend", "transaction"})
  THEN CurNum(a, toks, Opt(toks, i+2, {"of", "value"})) ELSE 0
ms3(a, toks, i) ==
  IF IsW(toks, i, {"min", "minimum"}) /\ IsW(toks, i+1, {"purchase", "spend", "transaction"})
  THEN CurNum(a, toks, Opt(toks, i+2, {"of", "value"})) ELSE 0
ms4(a, toks, i) ==
  IF /\ IsW(toks, i, {"valid"}) /\ IsW(toks, i+1, {"on"})
     /\ IsW(toks, i+2, {"order", "orders", "purchase", "purchases"})
     /\ IsW(toks, i+3, {"of", "above", "worth"})
  THEN CurNum(a, toks, i+4) ELSE 0
ms5(a, toks, i) ==
  IF /\ IsW(toks, i, {"applicable"}) /\ IsW(toks, i+1, {"on"})
     /\ IsW(toks, i+2, {"purchase", "purchases", "order", "orders", "transaction", "transactions"})
     /\ IsW(toks, i+3, {"of", "above", "worth"})
  THEN CurNum(a, toks, i+4) ELSE 0
ms6(a, toks, i) ==
  LET c == CurNum(a, toks, i+2)
  IN IF /\ IsW(toks, i, {"order", "orders", "purchase", "purchases", "spending"})
        /\ IsW(toks, i+1, {"of", "above", "worth"})
        /\ c # 0
        /\ \/ IsW(toks, c+1, {"or"}) /\ IsW(toks, c+2, {"more"})
           \/ IsW(toks, c+1, {"and"}) /\ IsW(toks, c+2, {"above"})
     THEN c ELSE 0
ms7(a, toks, i) ==
  IF /\ IsW(toks, i, {"minimum", "min"}) /\ IsW(toks, i+1, {"spend", "purchase", "order"})
     /\ IsW(toks, i+2, {":"})
  THEN CurNum(a, toks, i+3) ELSE 0
ms8(a, toks, i) ==
  IF IsW(toks, i, {"spend", "purchase", "order"})
  THEN IF IsW(toks, i+1, {"minimum", "min"}) THEN CurNum(a, toks, i+2)
       ELSE IF IsW(toks, i+1, {"at"}) /\ IsW(toks, i+2, {"least"}) THEN CurNum(a, toks, i+3)
       ELSE 0
  ELSE 0

(* re.search of one minimum-spend pattern; a capture float() rejects makes *)
(* the loop continue with the next pattern.                                *)
SearchMs(caps, toks) ==
  LET cap == Search(caps)
  IN IF cap # 0 /\ FloatOf(toks, cap) >= 0 THEN cap ELSE 0

extract_min_spend(a, toks) ==
  LET P == 1..Len(toks)
      caps == <<SearchMs([i \in P |-> ms1(a, toks, i)], toks),
                SearchMs([i \in P |-> ms2(a, toks, i)], toks)>>
              \o (IF a = "flipkart" THEN <<>>
                  ELSE <<SearchMs([i \in P |-> ms3(a, toks, i)], toks)>>)
              \o <<SearchMs([i \in P |-> ms4(a, toks, i)], toks)>>
              \o (IF a = "flipkart" THEN <<>>
                  ELSE <<SearchMs([i \in P |-> ms5(a, toks, i)], toks),
                         SearchMs([i \in P |-> ms6(a, toks, i)], toks),
                         SearchMs([i \in P |-> ms7(a, toks, i)], toks),
                         SearchMs([i \in P |-> ms8(a, toks, i)], toks)>>)
      cap == FirstHit(caps)
  IN IF cap = 0 THEN NoneF ELSE FloatOf(toks, cap)

(* ---- substring tests on description.lower() ---- *)
(* The pairs <<k, w>> of a keyword word k and a different word w of the    *)
(* model's vocabulary such that k occurs inside w, at its start, at its    *)
(* end.                                                                    *)
InfixPairs ==
  {<<"au", "launch">>, <<"back", "cashback">>, <<"card", "cards">>,
   <<"cash", "cashback">>, <<"chase", "purchase">>, <<"emi", "premium">>,
   <<"g", "exchange">>, <<"g", "get">>, <<"jio", "jiomart">>, <<"of", "off">>,
   <<"of", "offer">>, <<"of", "offers">>, <<"offer", "offers">>,
   <<"pay", "paytm">>, <<"pe", "special">>, <<"sc", "discount">>, <<"sind", "indusind">>}
PrefixPairs ==
  {<<"card", "cards">>, <<"cash", "cashback">>, <<"g", "get">>,
   <<"jio", "jiomart">>, <<"of", "off">>, <<"of", "offer">>, <<"of", "offers">>, <<"offer", "offers">>,
   <<"pay", "paytm">>}
SuffixPairs ==
  {<<"back", "cashback">>, <<"chase", "purchase">>, <<"sind", "indusind">>}

(* `phrase in text` with the phrase starting inside token i: a one-word    *)
(* phrase lies inside the token; of a longer phrase the first word ends    *)
(* token i, the last word starts the last token, the others are equal.     *)
PhraseAt(phrase, toks, i) ==
  LET L == Len(phrase)
  IN /\ i + L - 1 <= Len(toks)
     /\ \A k \in 1..L :
          LET w == toks[i + k - 1].w
              p == phrase[k]
          IN IF L = 1 THEN p = w \/ <<p, w>> \in InfixPairs
             ELSE IF k = 1 THEN p = w \/ <<p, w>> \in SuffixPairs
             ELSE IF k = L THEN p = w \/ <<p, w>> \in PrefixPairs
             ELSE p = w
Has(toks, phrase) == \E i \in 1..Len(toks) : PhraseAt(phrase, toks, i)
HasAny(toks, phrases) == \E ph \in phrases : Has(toks, ph)

(* ---- extract_card_type ---- *)
(* \bx\b is a whole token; x.*y is a token x with a token y after it. *)
Adjacent(toks, x, y) == \E i \in 1..Len(toks) : IsW(toks, i, {x}) /\ IsW(toks, i+1, {y})
Then(toks, x, y) ==
  \E i \in 1..Len(toks) : \E j \in 1..Len(toks) : i < j /\ toks[i].w = x /\ toks[j].w = y
AdjacentThen(toks, x, y, z) ==
  \E i \in 1..Len(toks) : \E j \in 1..Len(toks) :
     i + 1 < j /\ toks[i].w = x /\ toks[i+1].w = y /\ toks[j].w = z
credit_patterns(toks) ==
  \/ Adjacent(toks, "credit", "card")
  \/ \E i \in 1..Len(toks) : toks[i].w = "cc"
  \/ Then(toks, "credit", "card")
  \/ Adjacent(toks, "master", "card")
  \/ AdjacentThen(toks, "visa", "card", "credit")
debit_patterns(toks) ==
  \/ Adjacent(toks, "debit", "card")
  \/ \E i \in 1..Len(toks) : toks[i].w = "dc"
  \/ Then(toks, "debit", "card")
  \/ AdjacentThen(toks, "visa", "card", "debit")
  \/ AdjacentThen(toks, "master", "card", "debit")
(* A credit match returned as "Credit" without looking at the debit        *)
(* patterns.                                                               *)
extract_card_type_CreditWins(toks) ==
  IF credit_patterns(toks) THEN "Credit"
  ELSE IF debit_patterns(toks) THEN "Debit"
  ELSE IF \E i \in 1..Len(toks) : toks[i].w = "card"
  THEN IF HasAny(toks, {<<"premium">>, <<"rewards">>, <<"cashback">>, <<"points">>}) THEN "Credit"
       ELSE IF Has(toks, <<"atm">>) THEN "Debit"
       ELSE NoneS
  ELSE NoneS
extract_card_type(toks) ==
  IF credit_patterns(toks)
  THEN IF debit_patterns(toks) THEN "Credit/Debit" ELSE "Credit"
  ELSE IF debit_patterns(toks) THEN "Debit"
  ELSE IF \E i \in 1..Len(toks) : toks[i].w = "card"
  THEN IF HasAny(toks, {<<"premium">>, <<"rewards">>, <<"cashback">>, <<"points">>}) THEN "Credit"
       ELSE IF Has(toks, <<"atm">>) THEN "Debit"
       ELSE NoneS
  ELSE NoneS

(* ---- extract_card_provider ---- *)
card_providers ==
  <<"Visa", "Mastercard", "RuPay", "American Express", "Amex", "Diners Club",
    "Discover", "UnionPay", "JCB", "Maestro", "Cirrus", "PLUS">>
ProviderWords ==
  ("Visa" :> <<"visa">>) @@ ("Mastercard" :> <<"mastercard">>) @@ ("RuPay" :> <<"rupay">>) @@
  ("American Express" :> <<"american", "express">>) @@ ("Amex" :> <<"amex">>) @@
  ("Diners Club" :> <<"diners", "club">>) @@ ("Discover" :> <<"discover">>) @@
  ("UnionPay" :> <<"unionpay">>) @@ ("JCB" :> <<"jcb">>) @@ ("Maestro" :> <<"maestro">>) @@
  ("Cirrus" :> <<"cirrus">>) @@ ("PLUS" :> <<"plus">>)
extract_card_provider(toks) ==
  LET hit(k) == \/ Has(toks, ProviderWords[card_providers[k]])
                \/ card_providers[k] = "Mastercard" /\ Has(toks, <<"master">>)
      hits == {k \in 1..Len(card_providers) : hit(k)}
  IN IF hits = {} THEN NoneS ELSE card_providers[Min(hits)]

(* ---- the bank tables of __init__ and extract_bank ---- *)
(* bank_scores: <<canonical name, len(name), reputation score>> in the order
   of the dict literal. *)

bank_scores_base ==
  <<<<"SBI", 3, 75>>, <<"State Bank of India", 19, 75>>,
    <<"PNB", 3, 72>>, <<"Punjab National Bank", 20, 72>>,
    <<"BoB", 3, 70>>, <<"Bank of Baroda", 14, 70>>,
    <<"Canara Bank", 11, 68>>, <<"Union Bank of India", 19, 65>>,
    <<"Indian Bank", 11, 65>>, <<"Bank of India", 13, 65>>,
    <<"UCO Bank", 8, 62>>, <<"Indian Overseas Bank", 20, 62>>,
    <<"IOB", 3, 62>>, <<"Central Bank of India", 21, 62>>,
    <<"Bank of Maharashtra", 19, 60>>, <<"Punjab & Sind Bank", 18, 60>>,
    <<"HDFC", 4, 85>>, <<"HDFC Bank", 9, 85>>,
    <<"ICICI", 5, 90>>, <<"ICICI Bank", 10, 90>>,
    <<"Axis", 4, 80>>, <<"Axis Bank", 9, 80>>,
    <<"Kotak", 5, 70>>, <<"Kotak Mahindra Bank", 19, 70>>,
    <<"IndusInd Bank", 13, 68>>, <<"Yes Bank", 8, 60>>,
    <<"IDFC FIRST Bank", 15, 65>>, <<"IDFC", 4, 65>>,
    <<"Federal Bank", 12, 63>>, <<"South Indian Bank", 17, 60>>,
    <<"RBL Bank", 8, 62>>, <<"DCB Bank", 8, 60>>,
    <<"Tamilnad Mercantile Bank", 24, 58>>, <<"TMB", 3, 58>>,
    <<"Karur Vysya Bank", 16, 58>>, <<"CSB Bank", 8, 58>>,
    <<"City Union Bank", 15, 58>>, <<"Bandhan Bank", 12, 60>>,
    <<"Jammu & Kashmir Bank", 20, 58>>, <<"AU Small Finance Bank", 21, 65>>,
    <<"AU Bank", 7, 65>>, <<"Equitas Small Finance Bank", 26, 62>>,
    <<"Equitas", 7, 62>>, <<"Ujjivan Small Finance Bank", 26, 60>>,
    <<"Ujjivan", 7, 60>>, <<"Suryoday Small Finance Bank", 27, 58>>,
    <<"ESAF Small Finance Bank", 23, 58>>, <<"Fincare Small Finance Bank", 26, 58>>,
    <<"Jana Small Finance Bank", 23, 58>>, <<"North East Small Finance Bank", 29, 58>>,
    <<"Capital Small Finance Bank", 26, 58>>, <<"Unity Small Finance Bank", 24, 58>>,
    <<"Shivalik Small Finance Bank", 27, 58>>, <<"Citi", 4, 80>>,
    <<"Citibank", 8, 80>>, <<"HSBC", 4, 78>>,
    <<"Standard Chartered", 18, 75>>, <<"Deutsche Bank", 13, 75>>,
    <<"Barclays Bank", 13, 75>>, <<"DBS Bank", 8, 72>>,
    <<"JP Morgan Chase Bank", 20, 75>>, <<"Bank of America", 15, 75>>,
    <<"Saraswat Co-operative Bank", 26, 60>>, <<"Saraswat Bank", 13, 60>>,
    <<"Shamrao Vithal Co-operative Bank", 32, 55>>, <<"PMC Bank", 8, 50>>,
    <<"TJSB Sahakari Bank", 18, 55>>, <<"Amex", 4, 85>>,
    <<"American Express", 16, 85>>>>

bank_scores_flipkart ==
  <<<<"SBI", 3, 75>>, <<"State Bank of India", 19, 75>>,
    <<"PNB", 3, 72>>, <<"Punjab National Bank", 20, 72>>,
    <<"BoB", 3, 70>>, <<"Bank of Baroda", 14, 70>>,
    <<"Canara Bank", 11, 68>>, <<"Union Bank of India", 19, 65>>,
    <<"Indian Bank", 11, 65>>, <<"Bank of India", 13, 65>>,
    <<"UCO Bank", 8, 62>>, <<"Indian Overseas Bank", 20, 62>>,
    <<"IOB", 3, 62>>, <<"Central Bank of India", 21, 62>>,
    <<"Bank of Maharashtra", 19, 60>>, <<"Punjab & Sind Bank", 18, 60>>,
    <<"HDFC", 4, 85>>, <<"HDFC Bank", 9, 85>>,
    <<"ICICI", 5, 90>>, <<"ICICI Bank", 10, 90>>,
    <<"Axis", 4, 80>>, <<"Axis Bank", 9, 80>>,
    <<"Kotak", 5, 70>>, <<"Kotak Mahindra Bank", 19, 70>>,
    <<"IndusInd Bank", 13, 68>>, <<"Yes Bank", 8, 60>>,
    <<"IDFC FIRST Bank", 15, 65>>, <<"IDFC", 4, 65>>,
    <<"Federal Bank", 12, 63>>, <<"South Indian Bank", 17, 60>>,
    <<"RBL Bank", 8, 62>>, <<"DCB Bank", 8, 60>>,
    <<"Tamilnad Mercantile Bank", 24, 58>>, <<"TMB", 3, 58>>,
    <<"Karur Vysya Bank", 16, 58>>, <<"CSB Bank", 8, 58>>,
    <<"City Union Bank", 15, 58>>, <<"Bandhan Bank", 12, 60>>,
    <<"Jammu & Kashmir Bank", 20, 58>>, <<"AU Small Finance Bank", 21, 65>>,
    <<"AU Bank", 7, 65>>, <<"Equitas Small Finance Bank", 26, 62>>,
    <<"Equitas", 7, 62>>, <<"Ujjivan Small Finance Bank", 26, 60>>,
    <<"Ujjivan", 7, 60>>, <<"Citi", 4, 80>>,
    <<"Citibank", 8, 80>>, <<"HSBC", 4, 78>>,
    <<"Standard Chartered", 18, 75>>, <<"Deutsche Bank", 13, 75>>,
    <<"Barclays Bank", 13, 75>>, <<"DBS Bank", 8, 72>>,
    <<"JP Morgan Chase Bank", 20, 75>>, <<"Bank of America", 15, 75>>,
    <<"Amex", 4, 85>>, <<"American Express", 16, 85>>>>

bank_scores_digital ==
  <<<<"Paytm", 5, 75>>, <<"MobiKwik", 8, 70>>,
    <<"Mobikwik", 8, 70>>, <<"PhonePe", 7, 75>>,
    <<"Google Pay", 10, 75>>, <<"GPay", 4, 75>>,
    <<"Amazon Pay", 10, 72>>, <<"Airtel Money", 12, 65>>,
    <<"Jio Money", 9, 65>>, <<"FreeCharge", 10, 65>>,
    <<"PayU", 4, 68>>, <<"Razorpay", 8, 68>>,
    <<"UPI", 3, 78>>, <<"BHIM UPI", 8, 75>>,
    <<"Paytm UPI", 9, 75>>, <<"Paytm Wallet", 12, 75>>,
    <<"MobiKwik Wallet", 15, 70>>, <<"Mobikwik Wallet", 15, 70>>,
    <<"PhonePe UPI", 11, 75>>, <<"Google Pay UPI", 14, 75>>,
    <<"GPay UPI", 8, 75>>, <<"Paytm UPI Lite", 14, 73>>,
    <<"UPI Lite", 8, 73>>, <<"Wallet", 6, 65>>,
    <<"Digital Wallet", 14, 65>>>>

(* bank_name_patterns: <<key, aliases>>, every alias lower-cased and split
   into words, in the order of the dict literal. *)

bank_name_patterns_amazon ==
  <<<<"SBI", <<<<"sbi">>, <<"state", "bank">>, <<"state", "bank", "of", "india">>>>>>,
    <<"HDFC", <<<<"hdfc">>, <<"hdfc", "bank">>>>>>,
    <<"ICICI", <<<<"icici">>, <<"icici", "bank">>>>>>,
    <<"Axis", <<<<"axis">>, <<"axis", "bank">>>>>>,
    <<"Kotak", <<<<"kotak">>, <<"kotak", "mahindra">>>>>>,
    <<"Yes Bank", <<<<"yes", "bank">>, <<"yes", "bank">>>>>>,
    <<"IDFC", <<<<"idfc">>, <<"idfc", "first">>, <<"idfc", "bank">>>>>>,
    <<"IndusInd", <<<<"indusind">>, <<"indusind", "bank">>>>>>,
    <<"Federal", <<<<"federal">>, <<"federal", "bank">>>>>>,
    <<"RBL", <<<<"rbl">>, <<"rbl", "bank">>>>>>,
    <<"Citi", <<<<"citi">>, <<"citibank">>, <<"citibank">>>>>>,
    <<"HSBC", <<<<"hsbc">>>>>>,
    <<"Standard Chartered", <<<<"standard", "chartered">>, <<"stanchart">>, <<"sc", "bank">>>>>>,
    <<"AU Bank", <<<<"au", "bank">>, <<"au", "small", "finance">>, <<"au">>>>>>,
    <<"Equitas", <<<<"equitas">>, <<"equitas", "bank">>>>>>,
    <<"Ujjivan", <<<<"ujjivan">>, <<"ujjivan", "bank">>>>>>,
    <<"PNB", <<<<"pnb">>, <<"punjab", "national", "bank">>>>>>,
    <<"BoB", <<<<"bob">>, <<"bank", "of", "baroda">>, <<"baroda">>>>>>,
    <<"Canara", <<<<"canara">>, <<"canara", "bank">>>>>>,
    <<"Union Bank", <<<<"union", "bank">>, <<"union", "bank", "of", "india">>>>>>,
    <<"Indian Bank", <<<<"indian", "bank">>>>>>,
    <<"Bank of India", <<<<"bank", "of", "india">>>>>>,
    <<"UCO Bank", <<<<"uco">>, <<"uco", "bank">>>>>>,
    <<"Iob", <<<<"iob">>, <<"indian", "overseas", "bank">>>>>>,
    <<"Central Bank", <<<<"central", "bank">>, <<"central", "bank", "of", "india">>>>>>,
    <<"Bank of Maharashtra", <<<<"bank", "of", "maharashtra">>, <<"maharashtra", "bank">>>>>>,
    <<"Amex", <<<<"amex">>, <<"american", "express">>>>>>,
    <<"DBS", <<<<"dbs">>, <<"dbs", "bank">>>>>>>>

bank_name_patterns_croma ==
  <<<<"SBI", <<<<"sbi">>, <<"state", "bank">>, <<"state", "bank", "of", "india">>>>>>,
    <<"HDFC", <<<<"hdfc">>, <<"hdfc", "bank">>>>>>,
    <<"ICICI", <<<<"icici">>, <<"icici", "bank">>>>>>,
    <<"Axis", <<<<"axis">>, <<"axis", "bank">>>>>>,
    <<"Kotak", <<<<"kotak">>, <<"kotak", "mahindra">>>>>>,
    <<"Yes Bank", <<<<"yes", "bank">>, <<"yes", "bank">>>>>>,
    <<"IDFC", <<<<"idfc">>, <<"idfc", "first">>, <<"idfc", "bank">>>>>>,
    <<"IndusInd", <<<<"indusind">>, <<"indusind", "bank">>>>>>,
    <<"Federal", <<<<"federal">>, <<"federal", "bank">>>>>>,
    <<"RBL", <<<<"rbl">>, <<"rbl", "bank">>>>>>,
    <<"Citi", <<<<"citi">>, <<"citibank">>, <<"citibank">>>>>>,
    <<"HSBC", <<<<"hsbc">>>>>>,
    <<"Standard Chartered", <<<<"standard", "chartered">>, <<"stanchart">>, <<"sc", "bank">>>>>>,
    <<"AU Bank", <<<<"au", "bank">>, <<"au", "small", "finance">>, <<"au">>>>>>,
    <<"Equitas", <<<<"equitas">>, <<"equitas", "bank">>>>>>,
    <<"Ujjivan", <<<<"ujjivan">>, <<"ujjivan", "bank">>>>>>,
    <<"PNB", <<<<"pnb">>, <<"punjab", "national", "bank">>>>>>,
    <<"BoB", <<<<"bob">>, <<"bank", "of", "baroda">>, <<"baroda">>>>>>,
    <<"Canara", <<<<"canara">>, <<"canara", "bank">>>>>>,
    <<"Union Bank", <<<<"union", "bank">>, <<"union", "bank", "of", "india">>>>>>,
    <<"Indian Bank", <<<<"indian", "bank">>>>>>,
    <<"Bank of India", <<<<"bank", "of", "india">>>>>>,
    <<"UCO Bank", <<<<"uco">>, <<"uco", "bank">>>>>>,
    <<"Indian Overseas Bank", <<<<"iob">>, <<"indian", "overseas">>>>>>,
    <<"Central Bank", <<<<"central", "bank">>, <<"central", "bank", "of", "india">>>>>>,
    <<"Bank of Maharashtra", <<<<"bank", "of", "maharashtra">>, <<"maharashtra", "bank">>>>>>,
    <<"Amex", <<<<"amex">>, <<"american", "express">>>>>>,
    <<"DBS", <<<<"dbs">>, <<"dbs", "bank">>>>>>>>

bank_name_patterns_flipkart ==
  <<<<"SBI", <<<<"sbi">>, <<"state", "bank">>, <<"state", "bank", "of", "india">>>>>>,
    <<"HDFC", <<<<"hdfc">>, <<"hdfc", "bank">>>>>>,
    <<"ICICI", <<<<"icici">>, <<"icici", "bank">>>>>>,
    <<"Axis", <<<<"axis">>, <<"axis", "bank">>>>>>,
    <<"Kotak", <<<<"kotak">>, <<"kotak", "mahindra">>>>>>,
    <<"Yes Bank", <<<<"yes", "bank">>, <<"yes", "bank">>>>>>,
    <<"IDFC", <<<<"idfc">>, <<"idfc", "first">>, <<"idfc", "bank">>>>>>,
    <<"IndusInd", <<<<"indusind">>, <<"indusind", "bank">>>>>>,
    <<"Federal", <<<<"federal">>, <<"federal", "bank">>>>>>,
    <<"RBL", <<<<"rbl">>, <<"rbl", "bank">>>>>>,
    <<"Citi", <<<<"citi">>, <<"citibank">>, <<"citibank">>>>>>,
    <<"HSBC", <<<<"hsbc">>>>>>,
    <<"Standard Chartered", <<<<"standard", "chartered">>, <<"stanchart">>, <<"sc", "bank">>>>>>,
    <<"AU Bank", <<<<"au", "bank">>, <<"au", "small", "finance">>, <<"au">>>>>>,
    <<"Equitas", <<<<"equitas">>, <<"equitas", "bank">>>>>>>>

(* bank_variations of extract_bank: <<variation, standard name>> in the order
   of the dict literal. *)

bank_variations_amazon ==
  <<<<<<"hdfc">>, "HDFC">>, <<<<"icici">>, "ICICI">>,
    <<<<"axis">>, "Axis">>, <<<<"sbi">>, "SBI">>,
    <<<<"kotak">>, "Kotak">>, <<<<"yes">>, "Yes Bank">>,
    <<<<"idfc">>, "IDFC">>, <<<<"indusind">>, "IndusInd Bank">>,
    <<<<"federal">>, "Federal Bank">>, <<<<"rbl">>, "RBL Bank">>,
    <<<<"citi">>, "Citi">>, <<<<"hsbc">>, "HSBC">>,
    <<<<"standard", "chartered">>, "Standard Chartered">>, <<<<"au", "bank">>, "AU Bank">>,
    <<<<"equitas">>, "Equitas">>, <<<<"ujjivan">>, "Ujjivan">>,
    <<<<"pnb">>, "PNB">>, <<<<"bob">>, "BoB">>,
    <<<<"canara">>, "Canara Bank">>, <<<<"union", "bank">>, "Union Bank of India">>,
    <<<<"indian", "bank">>, "Indian Bank">>, <<<<"bank", "of", "india">>, "Bank of India">>,
    <<<<"uco">>, "UCO Bank">>, <<<<"iob">>, "Indian Overseas Bank">>,
    <<<<"central", "bank">>, "Central Bank of India">>, <<<<"amex">>, "Amex">>,
    <<<<"american", "express">>, "American Express">>>>

bank_variations_croma ==
  <<<<<<"hdfc">>, "HDFC">>, <<<<"icici">>, "ICICI">>,
    <<<<"axis">>, "Axis">>, <<<<"sbi">>, "SBI">>,
    <<<<"kotak">>, "Kotak">>, <<<<"yes", "bank">>, "Yes Bank">>,
    <<<<"yes">>, "Yes Bank">>, <<<<"idfc">>, "IDFC">>,
    <<<<"indusind">>, "IndusInd Bank">>, <<<<"federal">>, "Federal Bank">>,
    <<<<"rbl">>, "RBL Bank">>, <<<<"citi">>, "Citi">>,
    <<<<"citibank">>, "Citi">>, <<<<"hsbc">>, "HSBC">>,
    <<<<"standard", "chartered">>, "Standard Chartered">>, <<<<"au", "bank">>, "AU Bank">>,
    <<<<"au">>, "AU Bank">>, <<<<"equitas">>, "Equitas">>,
    <<<<"ujjivan">>, "Ujjivan">>, <<<<"pnb">>, "PNB">>,
    <<<<"punjab", "national", "bank">>, "PNB">>, <<<<"bob">>, "BoB">>,
    <<<<"bank", "of", "baroda">>, "BoB">>, <<<<"baroda">>, "BoB">>,
    <<<<"canara">>, "Canara Bank">>, <<<<"canara", "bank">>, "Canara Bank">>,
    <<<<"union", "bank">>, "Union Bank of India">>, <<<<"indian", "bank">>, "Indian Bank">>,
    <<<<"bank", "of", "india">>, "Bank of India">>, <<<<"uco">>, "UCO Bank">>,
    <<<<"uco", "bank">>, "UCO Bank">>, <<<<"iob">>, "Indian Overseas Bank">>,
    <<<<"indian", "overseas", "bank">>, "Indian Overseas Bank">>, <<<<"central", "bank">>, "Central Bank of India">>,
    <<<<"amex">>, "Amex">>, <<<<"american", "express">>, "American Express">>>>

bank_variations_jiomart ==
  <<<<<<"hdfc">>, "HDFC">>, <<<<"icici">>, "ICICI">>,
    <<<<"axis">>, "Axis">>, <<<<"sbi">>, "SBI">>,
    <<<<"kotak">>, "Kotak">>, <<<<"yes">>, "Yes Bank">>,
    <<<<"idfc">>, "IDFC">>, <<<<"indusind">>, "IndusInd Bank">>,
    <<<<"federal">>, "Federal Bank">>, <<<<"rbl">>, "RBL Bank">>,
    <<<<"citi">>, "Citi">>, <<<<"hsbc">>, "HSBC">>,
    <<<<"standard", "chartered">>, "Standard Chartered">>, <<<<"au", "bank">>, "AU Bank">>,
    <<<<"equitas">>, "Equitas">>, <<<<"ujjivan">>, "Ujjivan">>,
    <<<<"pnb">>, "PNB">>, <<<<"bob">>, "BoB">>,
    <<<<"canara">>, "Canara Bank">>, <<<<"union", "bank">>, "Union Bank of India">>,
    <<<<"indian", "bank">>, "Indian Bank">>, <<<<"bank", "of", "india">>, "Bank of India">>,
    <<<<"uco">>, "UCO Bank">>, <<<<"iob">>, "Indian Overseas Bank">>,
    <<<<"central", "bank">>, "Central Bank of India">>, <<<<"amex">>, "Amex">>,
    <<<<"american", "express">>, "American Express">>, <<<<"paytm">>, "Paytm">>,
    <<<<"mobikwik">>, "MobiKwik">>, <<<<"phonepe">>, "PhonePe">>,
    <<<<"phone", "pe">>, "PhonePe">>, <<<<"google", "pay">>, "Google Pay">>,
    <<<<"gpay">>, "Google Pay">>, <<<<"g", "pay">>, "Google Pay">>,
    <<<<"amazon", "pay">>, "Amazon Pay">>, <<<<"upi">>, "UPI">>,
    <<<<"paytm", "upi">>, "Paytm UPI">>, <<<<"paytm", "wallet">>, "Paytm Wallet">>,
    <<<<"mobikwik", "wallet">>, "MobiKwik Wallet">>, <<<<"paytm", "upi", "lite">>, "Paytm UPI Lite">>,
    <<<<"upi", "lite">>, "UPI Lite">>, <<<<"bhim", "upi">>, "BHIM UPI">>,
    <<<<"bhim">>, "BHIM UPI">>, <<<<"phonepe", "upi">>, "PhonePe UPI">>,
    <<<<"google", "pay", "upi">>, "Google Pay UPI">>, <<<<"gpay", "upi">>, "Google Pay UPI">>,
    <<<<"airtel", "money">>, "Airtel Money">>, <<<<"jio", "money">>, "Jio Money">>,
    <<<<"freecharge">>, "FreeCharge">>, <<<<"payu">>, "PayU">>,
    <<<<"razorpay">>, "Razorpay">>, <<<<"wallet">>, "Wallet">>,
    <<<<"digital", "wallet">>, "Digital Wallet">>>>

(* The words of a registry name, lower-cased. *)

NameWords ==
  ("AU Bank" :> <<"au", "bank">>) @@
  ("AU Small Finance Bank" :> <<"au", "small", "finance", "bank">>) @@
  ("Airtel Money" :> <<"airtel", "money">>) @@
  ("Amazon Pay" :> <<"amazon", "pay">>) @@
  ("American Express" :> <<"american", "express">>) @@
  ("Amex" :> <<"amex">>) @@
  ("Axis" :> <<"axis">>) @@
  ("Axis Bank" :> <<"axis", "bank">>) @@
  ("BHIM UPI" :> <<"bhim", "upi">>) @@
  ("Bandhan Bank" :> <<"bandhan", "bank">>) @@
  ("Bank of America" :> <<"bank", "of", "america">>) @@
  ("Bank of Baroda" :> <<"bank", "of", "baroda">>) @@
  ("Bank of India" :> <<"bank", "of", "india">>) @@
  ("Bank of Maharashtra" :> <<"bank", "of", "maharashtra">>) @@
  ("Barclays Bank" :> <<"barclays", "bank">>) @@
  ("BoB" :> <<"bob">>) @@
  ("CSB Bank" :> <<"csb", "bank">>) @@
  ("Canara Bank" :> <<"canara", "bank">>) @@
  ("Capital Small Finance Bank" :> <<"capital", "small", "finance", "bank">>) @@
  ("Central Bank of India" :> <<"central", "bank", "of", "india">>) @@
  ("Citi" :> <<"citi">>) @@
  ("Citibank" :> <<"citibank">>) @@
  ("City Union Bank" :> <<"city", "union", "bank">>) @@
  ("DBS Bank" :> <<"dbs", "bank">>) @@
  ("DCB Bank" :> <<"dcb", "bank">>) @@
  ("Deutsche Bank" :> <<"deutsche", "bank">>) @@
  ("Digital Wallet" :> <<"digital", "wallet">>) @@
  ("ESAF Small Finance Bank" :> <<"esaf", "small", "finance", "bank">>) @@
  ("Equitas" :> <<"equitas">>) @@
  ("Equitas Small Finance Bank" :> <<"equitas", "small", "finance", "bank">>) @@
  ("Federal Bank" :> <<"federal", "bank">>) @@
  ("Fincare Small Finance Bank" :> <<"fincare", "small", "finance", "bank">>) @@
  ("FreeCharge" :> <<"freecharge">>) @@
  ("GPay" :> <<"gpay">>) @@
  ("GPay UPI" :> <<"gpay", "upi">>) @@
  ("Google Pay" :> <<"google", "pay">>) @@
  ("Google Pay UPI" :> <<"google", "pay", "upi">>) @@
  ("HDFC" :> <<"hdfc">>) @@
  ("HDFC Bank" :> <<"hdfc", "bank">>) @@
  ("HSBC" :> <<"hsbc">>) @@
  ("ICICI" :> <<"icici">>) @@
  ("ICICI Bank" :> <<"icici", "bank">>) @@
  ("IDFC" :> <<"idfc">>) @@
  ("IDFC FIRST Bank" :> <<"idfc", "first", "bank">>) @@
  ("IOB" :> <<"iob">>) @@
  ("Indian Bank" :> <<"indian", "bank">>) @@
  ("Indian Overseas Bank" :> <<"indian", "overseas", "bank">>) @@
  ("IndusInd Bank" :> <<"indusind", "bank">>) @@
  ("JP Morgan Chase Bank" :> <<"jp", "morgan", "chase", "bank">>) @@
  ("Jammu & Kashmir Bank" :> <<"jammu", "&", "kashmir", "bank">>) @@
  ("Jana Small Finance Bank" :> <<"jana", "small", "finance", "bank">>) @@
  ("Jio Money" :> <<"jio", "money">>) @@
  ("Karur Vysya Bank" :> <<"karur", "vysya", "bank">>) @@
  ("Kotak" :> <<"kotak">>) @@
  ("Kotak Mahindra Bank" :> <<"kotak", "mahindra", "bank">>) @@
  ("MobiKwik" :> <<"mobikwik">>) @@
  ("MobiKwik Wallet" :> <<"mobikwik", "wallet">>) @@
  ("Mobikwik" :> <<"mobikwik">>) @@
  ("Mobikwik Wallet" :> <<"mobikwik", "wallet">>) @@
  ("North East Small Finance Bank" :> <<"north", "east", "small", "finance", "bank">>) @@
  ("PMC Bank" :> <<"pmc", "bank">>) @@
  ("PNB" :> <<"pnb">>) @@
  ("PayU" :> <<"payu">>) @@
  ("Paytm" :> <<"paytm">>) @@
  ("Paytm UPI" :> <<"paytm", "upi">>) @@
  ("Paytm UPI Lite" :> <<"paytm", "upi", "lite">>) @@
  ("Paytm Wallet" :> <<"paytm", "wallet">>) @@
  ("PhonePe" :> <<"phonepe">>) @@
  ("PhonePe UPI" :> <<"phonepe", "upi">>) @@
  ("Punjab & Sind Bank" :> <<"punjab", "&", "sind", "bank">>) @@
  ("Punjab National Bank" :> <<"punjab", "national", "bank">>) @@
  ("RBL Bank" :> <<"rbl", "bank">>) @@
  ("Razorpay" :> <<"razorpay">>) @@
  ("SBI" :> <<"sbi">>) @@
  ("Saraswat Bank" :> <<"saraswat", "bank">>) @@
  ("Saraswat Co-operative Bank" :> <<"saraswat", "co-operative", "bank">>) @@
  ("Shamrao Vithal Co-operative Bank" :> <<"shamrao", "vithal", "co-operative", "bank">>) @@
  ("Shivalik Small Finance Bank" :> <<"shivalik", "small", "finance", "bank">>) @@
  ("South Indian Bank" :> <<"south", "indian", "bank">>) @@
  ("Standard Chartered" :> <<"standard", "chartered">>) @@
  ("State Bank of India" :> <<"state", "bank", "of", "india">>) @@
  ("Suryoday Small Finance Bank" :> <<"suryoday", "small", "finance", "bank">>) @@
  ("TJSB Sahakari Bank" :> <<"tjsb", "sahakari", "bank">>) @@
  ("TMB" :> <<"tmb">>) @@
  ("Tamilnad Mercantile Bank" :> <<"tamilnad", "mercantile", "bank">>) @@
  ("UCO Bank" :> <<"uco", "bank">>) @@
  ("UPI" :> <<"upi">>) @@
  ("UPI Lite" :> <<"upi", "lite">>) @@
  ("Ujjivan" :> <<"ujjivan">>) @@
  ("Ujjivan Small Finance Bank" :> <<"ujjivan", "small", "finance", "bank">>) @@
  ("Union Bank of India" :> <<"union", "bank", "of", "india">>) @@
  ("Unity Small Finance Bank" :> <<"unity", "small", "finance", "bank">>) @@
  ("Wallet" :> <<"wallet">>) @@
  ("Yes Bank" :> <<"yes", "bank">>)

(* The names extract_bank of Croma can find, in the order sorted() gives
   them (code point order of str). *)
alphabetical ==
  <<"AU Bank", "AU Small Finance Bank", "American Express", "Amex",
    "Axis", "Axis Bank", "Bandhan Bank", "Bank of America",
    "Bank of Baroda", "Bank of India", "Bank of Maharashtra", "Barclays Bank",
    "BoB", "CSB Bank", "Canara", "Canara Bank",
    "Capital Small Finance Bank", "Central Bank", "Central Bank of India", "Citi",
    "Citibank", "City Union Bank", "DBS", "DBS Bank",
    "DCB Bank", "Deutsche Bank", "ESAF Small Finance Bank", "Equitas",
    "Equitas Small Finance Bank", "Federal", "Federal Bank", "Fincare Small Finance Bank",
    "HDFC", "HDFC Bank", "HSBC", "ICICI",
    "ICICI Bank", "IDFC", "IDFC FIRST Bank", "IOB",
    "Indian Bank", "Indian Overseas Bank", "IndusInd", "IndusInd Bank",
    "JP Morgan Chase Bank", "Jammu & Kashmir Bank", "Jana Small Finance Bank", "Karur Vysya Bank",
    "Kotak", "Kotak Mahindra Bank", "North East Small Finance Bank", "PMC Bank",
    "PNB", "Punjab & Sind Bank", "Punjab National Bank", "RBL",
    "RBL Bank", "SBI", "Saraswat Bank", "Saraswat Co-operative Bank",
    "Shamrao Vithal Co-operative Bank", "Shivalik Small Finance Bank", "South Indian Bank", "Standard Chartered",
    "State Bank of India", "Suryoday Small Finance Bank", "TJSB Sahakari Bank", "TMB",
    "Tamilnad Mercantile Bank", "UCO Bank", "Ujjivan", "Ujjivan Small Finance Bank",
    "Union Bank", "Union Bank of India", "Unity Small Finance Bank", "Yes Bank">>

(* A descending sort that is not stable: elements with equal keys come out *)
(* in the reverse of their original order.                                 *)
SortDesc_TiesReversed(seq, keys) ==
  LET n == Len(seq)
      pos(i) == 1 + Cardinality({j \in 1..n :
                       \/ keys[j] > keys[i]
                       \/ keys[j] = keys[i] /\ j > i})
  IN [p \in 1..n |-> seq[CHOOSE i \in 1..n : pos(i) = p]]

(* list.sort(key=..., reverse=True) and sorted(..., reverse=True): the     *)
(* elements in descending key order, elements with equal keys in their     *)
(* original relative order (the sort of Python is stable also when         *)
(* reversed).  keys[i] is the sort key of seq[i].                          *)
SortDesc(seq, keys) ==
  LET n == Len(seq)
      pos(i) == 1 + Cardinality({j \in 1..n :
                       \/ keys[j] > keys[i]
                       \/ keys[j] = keys[i] /\ j < i})
  IN [p \in 1..n |-> seq[CHOOSE i \in 1..n : pos(i) = p]]

NameLen(e) == e[2]
bank_scores_jiomart == bank_scores_base \o bank_scores_digital
bank_scores(a) ==
  IF a = "flipkart" THEN bank_scores_flipkart
  ELSE IF a = "jiomart" THEN bank_scores_jiomart
  ELSE bank_scores_base
(* sorted(self.bank_scores.keys(), key=len, reverse=True) *)
sorted_banks_base ==
  SortDesc(bank_scores_base, [k \in 1..Len(bank_scores_base) |-> NameLen(bank_scores_base[k])])
sorted_banks_flipkart ==
  SortDesc(bank_scores_flipkart,
           [k \in 1..Len(bank_scores_flipkart) |-> NameLen(bank_scores_flipkart[k])])
sorted_banks(a) == IF a = "flipkart" THEN sorted_banks_flipkart ELSE sorted_banks_base

default_bank_score == 70
(* self.bank_scores.get(bank, self.default_bank_score) *)
BankScore(a, bank) ==
  LET tbl == bank_scores(a)
      hits == {k \in 1..Len(tbl) : tbl[k][1] = bank}
  IN IF hits = {} THEN default_bank_score ELSE tbl[Min(hits)][3]

bank_name_patterns(a) ==
  IF a = "amazon" THEN bank_name_patterns_amazon
  ELSE IF a = "croma" THEN bank_name_patterns_croma
  ELSE IF a = "flipkart" THEN bank_name_patterns_flipkart
  ELSE <<>>
bank_variations(a) ==
  IF a = "amazon" THEN bank_variations_amazon
  ELSE IF a = "croma" THEN bank_variations_croma
  ELSE IF a = "jiomart" THEN bank_variations_jiomart
  ELSE <<>>

(* The entries of the three tiers that occur in the description. *)
PatternHits(a, toks) ==
  LET tbl == bank_name_patterns(a)
  IN {k \in 1..Len(tbl) : \E j \in 1..Len(tbl[k][2]) : Has(toks, tbl[k][2][j])}
DirectHits(a, toks) ==
  LET tbl == sorted_banks(a)
  IN {k \in 1..Len(tbl) : Has(toks, NameWords[tbl[k][1]])}
VariationHits(a, toks) ==
  LET tbl == bank_variations(a)
  IN {k \in 1..Len(tbl) : Has(toks, tbl[k][1])}

(* ', '.join(sorted(found_banks)) *)
JoinSorted(found) ==
  LET hits == {k \in 1..Len(alphabetical) : alphabetical[k] \in found}
      F[k \in 0..Len(alphabetical)] ==
        IF k = 0 THEN ""
        ELSE IF k \notin hits THEN F[k-1]
        ELSE IF F[k-1] = "" THEN alphabetical[k]
        ELSE F[k-1] \o ", " \o alphabetical[k]
  IN F[Len(alphabetical)]

extract_bank(a, toks) ==
  LET ph == PatternHits(a, toks)
      dh == DirectHits(a, toks)
      vh == VariationHits(a, toks)
  IN IF toks = <<>> THEN NoneS
     ELSE IF a = "croma" THEN
       LET found == IF ph # {} THEN {bank_name_patterns(a)[k][1] : k \in ph}
                    ELSE IF dh # {} THEN {sorted_banks(a)[k][1] : k \in dh}
                    ELSE {bank_variations(a)[k][2] : k \in vh}
       IN IF found = {} THEN NoneS ELSE JoinSorted(found)
     ELSE IF a = "jiomart" THEN
       IF vh # {} THEN bank_variations(a)[Min(vh)][2] ELSE NoneS
     ELSE IF ph # {} THEN bank_name_patterns(a)[Min(ph)][1]
     ELSE IF dh # {} THEN sorted_banks(a)[Min(dh)][1]
     ELSE IF a = "amazon" /\ vh # {} THEN bank_variations(a)[Min(vh)][2]
     ELSE NoneS

(* ---- raw offers ---- *)
(* card_title.lower(), as the words of the title. *)
TitleWords ==
  ("" :> <<>>) @@
  ("Bank Offer" :> <<W("bank"), W("offer")>>) @@
  ("Cashback" :> <<W("cashback")>>) @@
  ("Summary" :> <<W("summary")>>) @@
  ("Partner Offers" :> <<W("partner"), W("offers")>>) @@
  ("Instant Discount" :> <<W("instant"), W("discount")>>) @@
  ("Exchange Offer" :> <<W("exchange"), W("offer")>>) @@
  ("No Cost EMI" :> <<W("no"), W("cost"), W("emi")>>) @@
  ("Special Deal" :> <<W("special"), W("deal")>>) @@
  ("Card Offer" :> <<W("card"), W("offer")>>) @@
  ("EMI Cashback" :> <<W("emi"), W("cashback")>>) @@
  ("JioMart Offer" :> <<W("jiomart"), W("offer")>>) @@
  ("Flipkart Offer" :> <<W("flipkart"), W("offer")>>)

(* ---- determine_offer_type ---- *)
DefaultType(a) ==
  IF a = "amazon" THEN "Other Offer"
  ELSE IF a = "croma" THEN "Croma Offer"
  ELSE IF a = "jiomart" THEN "JioMart Offer"
  ELSE "Flipkart Offer"
determine_offer_type(a, card_title, toks) ==
  LET t == TitleWords[card_title]
  IN IF HasAny(t, {<<"bank", "offer">>, <<"instant", "discount">>, <<"card", "offer">>})
     THEN "Bank Offer"
     ELSE IF HasAny(t, {<<"no", "cost", "emi">>, <<"no-cost", "emi">>, <<"emi">>})
     THEN "No Cost EMI"
     ELSE IF HasAny(t, {<<"cashback">>, <<"cash", "back">>})
     THEN "Cashback"
     ELSE IF a # "amazon" /\ HasAny(t, {<<"exchange", "offer">>, <<"exchange">>})
     THEN "Exchange Offer"
     ELSE IF HasAny(t, {<<"partner", "offer">>, <<"partner">>})
     THEN "Partner Offers"
     ELSE IF HasAny(toks, {<<"bank">>, <<"credit", "card">>, <<"debit", "card">>})
     THEN "Bank Offer"
     ELSE IF a # "amazon" /\ HasAny(toks, {<<"emi">>, <<"no", "cost">>})
     THEN "No Cost EMI"
     ELSE IF card_title # "" THEN card_title
     ELSE DefaultType(a)

(* The type Flipkart's parse_offer derives from the description alone. *)
FlipkartType(toks) ==
  IF Has(toks, <<"bank">>) \/ Has(toks, <<"card">>) THEN "Bank Offer"
  ELSE IF Has(toks, <<"emi">>) THEN "No Cost EMI"
  ELSE IF Has(toks, <<"cashback">>) THEN "Cashback"
  ELSE IF Has(toks, <<"exchange">>) THEN "Exchange Offer"
  ELSE "Flipkart Offer"

(* The generic titles parse_offer replaces by the offer type. *)
GenericTitle(a, card_title) ==
  \/ card_title = ""
  \/ TitleWords[card_title] = <<W("summary")>>
  \/ a = "croma" /\ TitleWords[card_title] = <<W("croma"), W("offer")>>
  \/ a = "jiomart" /\ TitleWords[card_title] = <<W("jiomart"), W("offer")>>

(* ---- parse_offer ---- *)
(* An Offer.  percentage is a field of Croma's Offer only; it is None for  *)
(* the other analyzers, which never read it.                               *)
parse_offer(a, offer) ==
  LET card_title == IF "card_type" \in DOMAIN offer THEN offer.card_type
                    ELSE IF a = "flipkart" THEN "Flipkart Offer" ELSE ""
      description == IF "offer_description" \in DOMAIN offer
                     THEN offer.offer_description ELSE <<>>
      offer_type == IF a = "flipkart" THEN FlipkartType(description)
                    ELSE determine_offer_type(a, card_title, description)
      title == IF a = "flipkart" THEN card_title
               ELSE IF offer_type = "Bank Offer" THEN "Bank Offer"
               ELSE IF GenericTitle(a, card_title) THEN offer_type
               ELSE card_title
  IN [title |-> title,
      description |-> description,
      amount |-> extract_amount(a, description),
      type |-> offer_type,
      bank |-> extract_bank(a, description),
      min_spend |-> extract_min_spend(a, description),
      is_instant |-> IF a = "flipkart" THEN Has(description, <<"instant">>)
                     ELSE Has(description, <<"instant">>) \/ ~Has(description, <<"cashback">>),
      card_type |-> IF a = "flipkart" THEN NoneS ELSE extract_card_type(description),
      card_provider |-> IF a \in {"amazon", "croma"} THEN extract_card_provider(description)
                        ELSE NoneS,
      percentage |-> IF a = "croma" THEN extract_percentage(description) ELSE NoneF]

(* ---- calculate_offer_score ---- *)
(* A score is held as the integer score * Scale(product_price): every      *)
(* term of the source is a multiple of 1 / (2 * product_price).            *)
Scale(price) == IF price = 0 THEN 2 ELSE 2 * Abs(price)

(* Python truthiness of an Optional[float]: None and 0.0 are false. *)
Truthy(x) == x # NoneF /\ x # 0

(* min(discount_percentage * 2, 50) for a flat amount and for a percentage. *)
AmountPoints(offer, price) == Min2(400 * offer.amount, 50 * Scale(price))
PercentagePoints(offer, price) == Min2(2 * offer.percentage * Scale(price), 50 * Scale(price))

(* A discount bonus that takes the flat amount before the percentage. *)
DiscountBonus_AmountFirst(a, offer, price) ==
  IF price <= 0 THEN 0
  ELSE IF offer.amount > 0 THEN AmountPoints(offer, price)
  ELSE IF a = "croma" /\ Truthy(offer.percentage) /\ offer.percentage > 0
  THEN PercentagePoints(offer, price)
  ELSE 0

(* PRIMARY FACTOR: the discount bonus. *)
DiscountBonus(a, offer, price) ==
  IF price <= 0 THEN 0
  ELSE IF a = "croma" /\ Truthy(offer.percentage) /\ offer.percentage > 0
  THEN PercentagePoints(offer, price)
  ELSE IF offer.amount > 0 THEN AmountPoints(offer, price)
  ELSE 0

(* penalty_percentage > 50, penalty_percentage being                       *)
(* ((min_spend - price) / price) * 100 with min_spend > price.             *)
HighMinSpend(offer, price) == price > 0 /\ 100 * (offer.min_spend - price) > 50 * price

(* The division by product_price of the penalty branch. *)
DividesByZero(offer, price) ==
  Truthy(offer.min_spend) /\ offer.min_spend > price /\ price = 0

(* A minimum-spend branch that leaves the running score of an offer whose  *)
(* min_spend exceeds the price as it is.                                   *)
MinSpendAdjust_NoShortfallBranch(base, offer, price) ==
  LET S == Scale(price)
      ms == offer.min_spend
  IN IF Truthy(ms) /\ ms > price THEN base
     ELSE IF ms = NoneF THEN base + 20 * S
     ELSE IF ms <= price
     THEN IF price > 0
          THEN IF 10 * ms <= 9 * price THEN base + 20 * (price - ms) ELSE base
          ELSE base + 10 * S
     ELSE base

(* A minimum-spend branch without the reset to 15: every shortfall is      *)
(* subtracted from the running score, with the floor of 20.                *)
MinSpendAdjust_PenaltyOnly(base, offer, price) ==
  LET S == Scale(price)
      ms == offer.min_spend
  IN IF Truthy(ms) /\ ms > price
     THEN LET penalty == IF price > 0 THEN 100 * (ms - price) ELSE -100 * (ms - price)
          IN Max2(base - penalty, 20 * S)
     ELSE IF ms = NoneF THEN base + 20 * S
     ELSE IF ms <= price
     THEN IF price > 0
          THEN IF 10 * ms <= 9 * price THEN base + 20 * (price - ms) ELSE base
          ELSE base + 10 * S
     ELSE base

(* CRITICAL FACTOR: the running score after the minimum-spend branch. *)
MinSpendAdjust(base, offer, price) ==
  LET S == Scale(price)
      ms == offer.min_spend
  IN IF Truthy(ms) /\ ms > price
     THEN IF HighMinSpend(offer, price) THEN 15 * S
          ELSE LET penalty == IF price > 0 THEN 100 * (ms - price) ELSE -100 * (ms - price)
               IN Max2(base - penalty, 20 * S)
     ELSE IF ms = NoneF THEN base + 20 * S
     ELSE IF ms <= price
     THEN IF price > 0
          THEN IF 10 * ms <= 9 * price THEN base + 20 * (price - ms) ELSE base
          ELSE base + 10 * S
     ELSE base

InstantBonus(a, offer, price) ==
  IF a # "flipkart" /\ offer.is_instant THEN 5 * Scale(price) ELSE 0

BankBonus(a, offer, price) ==
  IF offer.bank # NoneS
  THEN (BankScore(a, offer.bank) - 70) * (Scale(price) \div 2)
  ELSE -5 * Scale(price)

CardTypeBonus(a, offer, price) ==
  IF a = "flipkart" THEN 0
  ELSE IF offer.card_type = "Credit" THEN 3 * Scale(price)
  ELSE IF offer.card_type = "Credit/Debit" THEN 2 * Scale(price)
  ELSE IF offer.card_type = "Debit" THEN Scale(price)
  ELSE 0

provider_bonus(card_provider) ==
  IF card_provider \in {"Visa", "Mastercard"} THEN 2
  ELSE IF card_provider \in {"RuPay", "Diners Club"} THEN 3
  ELSE IF card_provider \in {"American Express", "Amex"} THEN 4
  ELSE 1
(* A card-provider bonus without the default of 1 for the other providers. *)
CardProviderBonus_NoDefault(a, offer, price) ==
  IF a \in {"amazon", "croma"} /\ offer.card_provider # NoneS
  THEN (IF provider_bonus(offer.card_provider) = 1 THEN 0
        ELSE provider_bonus(offer.card_provider)) * Scale(price)
  ELSE 0
CardProviderBonus(a, offer, price) ==
  IF a \in {"amazon", "croma"} /\ offer.card_provider # NoneS
  THEN provider_bonus(offer.card_provider) * Scale(price)
  ELSE 0

(* The names extract_bank of JioMart returns whose lower case contains one *)
(* of upi, wallet, paytm, mobikwik, phonepe, google pay, gpay.             *)
DigitalBanks ==
  {"BHIM UPI", "Digital Wallet", "Google Pay", "Google Pay UPI", "MobiKwik",
   "MobiKwik Wallet", "Paytm", "Paytm UPI", "Paytm UPI Lite", "Paytm Wallet",
   "PhonePe", "PhonePe UPI", "UPI", "UPI Lite", "Wallet"}
DigitalBonus(a, offer, price) ==
  IF a = "jiomart" /\ offer.bank \in DigitalBanks THEN 5 * Scale(price) ELSE 0

(* A final score without the upper bound. *)
Clamp_NoUpper(base, price) == Max2(0, base)

(* final_score = max(0, min(100, base_score)) *)
Clamp(base, price) == Max2(0, Min2(100 * Scale(price), base))

calculate_offer_score(a, offer, price) ==
  IF offer.type # "Bank Offer" THEN 0
  ELSE LET S == Scale(price)
           b1 == 80 * S + DiscountBonus(a, offer, price)
           b2 == MinSpendAdjust(b1, offer, price)
           b3 == b2 + InstantBonus(a, offer, price) + BankBonus(a, offer, price)
                    + CardTypeBonus(a, offer, price) + CardProviderBonus(a, offer, price)
                    + DigitalBonus(a, offer, price)
       IN Clamp(b3, price)

(* ---- rank_offers ---- *)
(* Applicability and net effective price of one offer.  The net price is   *)
(* held in hundredths of a currency unit (multiplied by 100).              *)
NotApplicable(offer, price) == Truthy(offer.min_spend) /\ price < offer.min_spend
(* A net price without the floor at 0. *)
NetPrice_NoFloor(a, offer, price) ==
  IF NotApplicable(offer, price) THEN 100 * price
  ELSE IF a = "croma" /\ Truthy(offer.percentage) /\ offer.percentage > 0
  THEN 100 * price - offer.percentage * price
  ELSE 100 * price - 100 * offer.amount
NetPrice(a, offer, price) ==
  IF NotApplicable(offer, price) THEN 100 * price
  ELSE IF a = "croma" /\ Truthy(offer.percentage) /\ offer.percentage > 0
  THEN Max2(100 * price - offer.percentage * price, 0)
  ELSE Max2(100 * price - 100 * offer.amount, 0)

(* The dict appended for one offer.  src is not a key of the source's      *)
(* dict: it records the position of the raw offer in offers_data.          *)
RankedRecord(a, offer, price, score, src) ==
  [title |-> offer.title,
   description |-> offer.description,
   amount |-> offer.amount,
   percentage |-> offer.percentage,
   bank |-> offer.bank,
   min_spend |-> offer.min_spend,
   score |-> score,
   is_instant |-> offer.is_instant,
   net_effective_price |-> NetPrice(a, offer, price),
   is_applicable |-> ~NotApplicable(offer, price),
   offer_type |-> offer.type,
   rank |-> NoneF,
   card_type |-> offer.card_type,
   card_provider |-> offer.card_provider,
   src |-> src]

ScoreKey(r) == r.score

(* The indices, in increasing order, at which keep is TRUE: a list         *)
(* comprehension with a filter, keep[i] being its condition on element i.  *)
Filter(keep) ==
  LET F[k \in 0..Len(keep)] ==
        IF k = 0 THEN <<>>
        ELSE IF keep[k] THEN Append(F[k-1], k) ELSE F[k-1]
  IN F[Len(keep)]

IsBankOffer(offer) == offer.type = "Bank Offer"
IsOtherOffer(offer) == offer.type # "Bank Offer"

(* scored_bank_offers after the sort and the rank loop. *)
RankBankOffers(a, parsed, price) ==
  LET bank_idx == Filter([k \in 1..Len(parsed) |-> IsBankOffer(parsed[k])])
      scored == [k \in 1..Len(bank_idx) |->
                   RankedRecord(a, parsed[bank_idx[k]], price,
                                calculate_offer_score(a, parsed[bank_idx[k]], price),
                                bank_idx[k])]
      sorted == SortDesc(scored, [k \in 1..Len(scored) |-> ScoreKey(scored[k])])
  IN [k \in 1..Len(sorted) |-> [sorted[k] EXCEPT !.rank = k]]

(* Other offers that are given the score of calculate_offer_score. *)
OtherOffers_Scored(a, parsed, price) ==
  LET other_idx == Filter([k \in 1..Len(parsed) |-> IsOtherOffer(parsed[k])])
  IN [k \in 1..Len(other_idx) |->
        RankedRecord(a, parsed[other_idx[k]], price,
                     calculate_offer_score(a, parsed[other_idx[k]], price), other_idx[k])]
(* other_offers: the records of the offers of another type, unscored. *)
OtherOffers(a, parsed, price) ==
  LET other_idx == Filter([k \in 1..Len(parsed) |-> IsOtherOffer(parsed[k])])
  IN [k \in 1..Len(other_idx) |->
        RankedRecord(a, parsed[other_idx[k]], price, NoneF, other_idx[k])]

(* The two lists joined in the other order. *)
rank_offers_OthersFirst(a, parsed, price) ==
  OtherOffers(a, parsed, price) \o RankBankOffers(a, parsed, price)
(* all_ranked_offers = scored_bank_offers + other_offers *)
rank_offers(a, parsed, price) ==
  RankBankOffers(a, parsed, price) \o OtherOffers(a, parsed, price)

(* The exception rank_offers raises on these offers, or "none". *)
Raises(a, parsed, price) ==
  IF \E i \in 1..Len(parsed) : IsBankOffer(parsed[i]) /\ DividesByZero(parsed[i], price)
  THEN "ZeroDivisionError"
  ELSE "none"

(* ---- the inputs ---- *)
Raw1 ==
  [card_type |-> "Bank Offer",
   offer_description |->
     <<W("flat"), W("rupee"), N(1000), W("instant"), W("discount"),
       W("on"), W("hdfc"), W("bank"), W("credit"), W("card"), W(","),
       W("minimum"), W("purchase"), W("value"), W("of"), W("inr"),
       N(20000)>>]
Raw2 ==
  [card_type |-> "Bank Offer",
   offer_description |->
     <<W("flat"), W("rupee"), N(2000), W("instant"), W("discount"),
       W("on"), W("hdfc"), W("bank"), W("credit"), W("card"), W(","),
       W("minimum"), W("purchase"), W("value"), W("of"), W("inr"),
       N(20000)>>]
Raw3 ==
  [card_type |-> "",
   offer_description |->
     <<W("up"), W("to"), N(10), W("%"), W("discount"), W("up"), W("to"),
       W("inr"), N(2000), W("on"), W("icici"), W("bank"), W("cards")>>]
Raw4 ==
  [card_type |-> "Bank Offer",
   offer_description |->
     <<W("flat"), W("inr"), N(500), W("off")>>]
Raw5 ==
  [card_type |-> "Bank Offer",
   offer_description |->
     <<W("get"), N(5), W("%"), W("off"), W("with"), W("cashback"), W(","),
       W("minimum"), W("purchase"), W("value"), W("of"), W("inr"),
       N(14000)>>]
Raw6 ==
  [card_type |-> "Bank Offer",
   offer_description |->
     <<W("flat"), W("inr"), N(500), W("off"), W(","), W("minimum"),
       W("purchase"), W("value"), W("of"), W("inr"), N(0)>>]
Raw7 ==
  [card_type |-> "Cashback",
   offer_description |->
     <<W("get"), W("inr"), N(300), W("cashback"), W(","), W("minimum"),
       W("purchase"), W("value"), W("of"), W("inr"), N(20000)>>]
Raw8 ==
  [card_type |-> "Partner Offers",
   offer_description |->
     <<W("save"), N(10), W("%"), W("and"), W("flat"), W("inr"), N(100),
       W("off"), W("with"), W("visa"), W("debit"), W("card")>>]
Raw9 ==
  [card_type |-> "Instant Discount",
   offer_description |->
     <<W("inr"), N(1500), W("off"), W("on"), W("indusind"), W("bank"),
       W("credit"), W("card"), W("and"), W("debit"), W("card"),
       W(","), W("minimum"), W("purchase"), W("value"), W("of"),
       W("inr"), N(14000)>>]
Raw10 ==
  [card_type |-> "Summary",
   offer_description |->
     <<>>]

(* An element of offers_data that is not a dict: the str "N/A". *)
NotADict == [str |-> "N/A"]
(* isinstance(offer, dict) *)
IsDict(o) == "str" \notin DOMAIN o

(* The element get_bank_offers of Amazon returns for an exception on the   *)
(* last attempt: {"error": str(e)}.                                        *)
ErrorRecord == [error |-> "Message"]

(* An offer as get_jiomart_offers builds it from the bank-offers API:      *)
(* card_type "JioMart Offer" and the coupon text as description.           *)
JioMartApiOffer == [card_type |-> "JioMart Offer", offer_description |-> Raw1.offer_description]

RawOffers == {Raw1, Raw2, Raw3, Raw4, Raw5, Raw6, Raw7, Raw8, Raw9, Raw10, NotADict}
Prices == {-5, 0, 400, 10000, 15000, 25000}
MaxOffers == 3

(* parse_offer of every raw offer of the pool, evaluated once. *)
ParseTable ==
  [a \in Analyzers, o \in {r \in RawOffers \cup {ErrorRecord, JioMartApiOffer} : IsDict(r)} |->
     parse_offer(a, o)]

(* A comprehension that stops at the first element that is not a dict      *)
(* instead of skipping it.                                                 *)
ParseAll_StopsAtNonDict(a, offers) ==
  LET lead == {k \in 1..Len(offers) : \A j \in 1..k : IsDict(offers[j])}
  IN [k \in 1..Cardinality(lead) |-> ParseTable[a, offers[k]]]
(* [self.parse_offer(offer) for offer in offers_data if isinstance(offer, dict)] *)
ParseAll(a, offers) ==
  LET dicts == Filter([k \in 1..Len(offers) |-> IsDict(offers[k])])
  IN [k \in 1..Len(dicts) |-> ParseTable[a, offers[dicts[k]]]]

(* ---- the state machine ---- *)
(* No scraper run is in progress: the variables of a run hold nothing. *)
NoRun ==
  /\ data = <<>>
  /\ rescrape_all = FALSE
  /\ links = <<>>
  /\ idx = 0
  /\ visited_urls = {}
  /\ visited_file = <<>>
  /\ attempts = <<>>
  /\ fetched = <<>>
  /\ backups = <<>>
  /\ output_file = <<>>

Init ==
  /\ analyzer \in Analyzers
  /\ offers_data = <<>>
  /\ product_price = 0
  /\ pc = "scraping"
  /\ parsed_offers = <<>>
  /\ all_ranked_offers = <<>>
  /\ raised = "none"
  /\ NoRun

(* The scraper collects one more raw offer record from the page. *)
Scrape(o) ==
  /\ pc = "scraping"
  /\ Len(offers_data) < MaxOffers
  /\ offers_data' = Append(offers_data, o)
  /\ UNCHANGED <<analyzer, product_price, pc, parsed_offers, all_ranked_offers, raised>>
  /\ UNCHANGED runVars

(* rank_offers(offers_data, price) returns. *)
RankOffers(price) ==
  LET parsed == ParseAll(analyzer, offers_data)
  IN /\ pc = "scraping"
     /\ Raises(analyzer, parsed, price) = "none"
     /\ product_price' = price
     /\ parsed_offers' = parsed
     /\ all_ranked_offers' = rank_offers(analyzer, parsed, price)
     /\ pc' = "returned"
     /\ UNCHANGED <<analyzer, offers_data, raised>>
     /\ UNCHANGED runVars

(* rank_offers(offers_data, price) raises. *)
RankOffersRaises(price) ==
  LET parsed == ParseAll(analyzer, offers_data)
  IN /\ pc = "scraping"
     /\ Raises(analyzer, parsed, price) # "none"
     /\ product_price' = price
     /\ parsed_offers' = parsed
     /\ raised' = Raises(analyzer, parsed, price)
     /\ pc' = "raised"
     /\ UNCHANGED <<analyzer, offers_data, all_ranked_offers>>
     /\ UNCHANGED runVars

Next ==
  \/ \E o \in RawOffers : Scrape(o)
  \/ \E price \in Prices : RankOffers(price)
  \/ \E price \in Prices : RankOffersRaises(price)

Spec == Init /\ [][Next]_vars

(* ---- calculate_offer_score on Offer objects ---- *)
(* The Offer objects calculate_offer_score is applied to: Bank Offers with *)
(* every combination of these field values.  Only the Offer class of Croma *)
(* has the field percentage.                                               *)
ScoreAmounts == {0, 300, 3000}
ScoreMinSpends == {NoneF, 0, 5000, 9500, 12000}
ScoreBanks == {NoneS, "HDFC", "IndusInd", "Paytm", "Saraswat Bank"}
ScoreCardTypes == {NoneS, "Credit", "Credit/Debit", "Debit"}
ScoreCardProviders == {NoneS, "Visa", "RuPay", "Amex", "JCB"}
ScorePercentages(a) == IF a = "croma" THEN {NoneF, 0, 5} ELSE {NoneF}
ScorePrices == {6000, 10000}
ScoreOffers(a) ==
  [title : {"Bank Offer"}, description : {<<>>}, amount : ScoreAmounts,
   type : {"Bank Offer"}, bank : ScoreBanks, min_spend : ScoreMinSpends,
   is_instant : BOOLEAN, card_type : ScoreCardTypes,
   card_provider : ScoreCardProviders, percentage : ScorePercentages(a)]

InitScore ==
  /\ analyzer \in Analyzers
  /\ offers_data = <<>>
  /\ product_price = 0
  /\ pc = "scoring"
  /\ parsed_offers \in {<<o>> : o \in ScoreOffers(analyzer)}
  /\ all_ranked_offers = <<>>
  /\ raised = "none"
  /\ NoRun

(* calculate_offer_score(offer, price) returns; the score is kept in the   *)
(* record rank_offers builds for the offer.                                *)
ScoreOffer(price) ==
  LET offer == parsed_offers[1]
  IN /\ pc = "scoring"
     /\ product_price' = price
     /\ all_ranked_offers' =
          <<RankedRecord(analyzer, offer, price,
                         calculate_offer_score(analyzer, offer, price), 1)>>
     /\ pc' = "scored"
     /\ UNCHANGED <<analyzer, offers_data, parsed_offers, raised>>
     /\ UNCHANGED runVars

NextScore == \E price \in ScorePrices : ScoreOffer(price)

SpecScore == InitScore /\ [][NextScore]_vars

(* ---- parse_offer on single raw offer records ---- *)
(* The raw offer records parse_offer is applied to, besides those of the   *)
(* pool above.                                                             *)
Raw11 ==
  [card_type |-> "Bank Offer",
   offer_description |->
     <<N(10), W("%"), W("off"), W("on"), W("central"), W("bank"),
       W("of"), W("india"), W("credit"), W("card")>>]
Raw12 ==
  [card_type |-> "Bank Offer",
   offer_description |->
     <<W("flat"), W("inr"), N(500), W("off"), W("on"), W("sbi"),
       W("and"), W("hdfc"), W("bank"), W("credit"), W("cards")>>]
Raw13 ==
  [card_type |-> "Bank Offer",
   offer_description |->
     <<W("flat"), W("inr"), N(750), W("off"), W("on"), W("kotak"),
       W("and"), W("axis"), W("bank"), W("cards")>>]
Raw14 ==
  [card_type |-> "Cashback",
   offer_description |->
     <<W("get"), W("inr"), N(300), W("cashback"), W("on"), W("hdfc"),
       W("bank"), W("credit"), W("card")>>]
Raw15 ==
  [card_type |-> "Exchange Offer",
   offer_description |->
     <<W("up"), W("to"), W("inr"), N(2000), W("off"), W("on"),
       W("exchange"), W("with"), W("icici"), W("bank"), W("debit"),
       W("card")>>]
Raw16 ==
  [card_type |-> "No Cost EMI",
   offer_description |->
     <<W("no"), W("cost"), W("emi"), W("on"), W("hdfc"), W("bank"),
       W("credit"), W("card")>>]
Raw17 ==
  [card_type |-> "",
   offer_description |->
     <<W("flat"), W("inr"), N(500), W("off")>>]
Raw18 ==
  [card_type |-> "Summary",
   offer_description |->
     <<W("get"), W("inr"), N(300), W("cashback")>>]
Raw19 ==
  [card_type |-> "Special Deal",
   offer_description |->
     <<W("save"), W("inr"), N(250), W("on"), W("your"), W("order")>>]
Raw20 ==
  [card_type |-> "Bank Offer",
   offer_description |->
     <<W("inr"), N(1500), W("off"), W("on"), W("credit"), W("card"),
       W("and"), W("debit"), W("card")>>]
Raw21 ==
  [card_type |-> "Bank Offer",
   offer_description |->
     <<W("earn"), W("rewards"), W("on"), W("your"), W("card")>>]
Raw22 ==
  [card_type |-> "Bank Offer",
   offer_description |->
     <<W("use"), W("your"), W("atm"), W("card")>>]
Raw23 ==
  [card_type |-> "Bank Offer",
   offer_description |->
     <<W("valid"), W("on"), W("any"), W("card")>>]
Raw24 ==
  [card_type |-> "Bank Offer",
   offer_description |->
     <<W("flat"), W("inr"), N(200), W("off"), W("on"), W("debit"),
       W("card")>>]
Raw25 ==
  [card_type |-> "Bank Offer",
   offer_description |->
     <<W("get"), W("rewards"), W("on"), W("all"), W("cards")>>]
Raw26 ==
  [card_type |-> "Bank Offer",
   offer_description |->
     <<W("offer"), W("for"), W("cc"), W("holders")>>]
Raw27 ==
  [card_type |-> "Bank Offer",
   offer_description |->
     <<W("flat"), W("inr"), N(500), W("off"), W(","), N(10), W("%"),
       W("discount"), W("up"), W("to"), W("inr"), N(2000)>>]
Raw28 ==
  [card_type |-> "Bank Offer",
   offer_description |->
     <<N(10), W("%"), W("instant"), W("discount"), W("up"), W("to"),
       W("inr"), N(2000), W(","), W("flat"), W("rupee"), N(750)>>]
Raw29 ==
  [card_type |-> "Cashback",
   offer_description |->
     <<W("earn"), W("inr"), N(300), W("cash"), W("back"), W("and"),
       W("get"), W("inr"), N(100), W("off")>>]
Raw30 ==
  [card_type |-> "Bank Offer",
   offer_description |->
     <<N(5), W("%"), W("off"), W("on"), W("all"), W("orders")>>]
Raw31 ==
  [card_type |-> "",
   offer_description |->
     <<W("launch"), W("offer"), W(":"), W("flat"), W("inr"), N(500),
       W("off")>>]
Raw32 ==
  [card_type |-> "Partner Offers",
   offer_description |->
     <<W("get"), N(5), W("%"), W("off"), W("on"), W("indusind"),
       W("bank"), W("credit"), W("card")>>]
Raw33 ==
  [card_type |-> "",
   offer_description |->
     <<W("flat"), W("inr"), N(100), W("off"), W("on"), W("paytm"),
       W("upi")>>]
Raw34 ==
  [card_type |-> "Card Offer",
   offer_description |->
     <<W("flat"), W("inr"), N(500), W("off")>>]
Raw35 ==
  [card_type |-> "Bank Offer",
   offer_description |->
     <<W("flat"), W("inr"), N(500), W("off"), W("on"), W("union"),
       W("bank"), W("of"), W("india"), W("cards")>>]
Raw36 ==
  [card_type |-> "Exchange Offer",
   offer_description |->
     <<W("up"), W("to"), W("inr"), N(2000), W("off"), W("on"),
       W("exchange")>>]
Raw37 ==
  [card_type |-> "Cashback",
   offer_description |->
     <<W("no"), W("cost"), W("emi"), W("available")>>]
Raw38 ==
  [card_type |-> "Bank Offer",
   offer_description |->
     <<W("flat"), W("inr"), N(300), W("off"), W("on"), W("saraswat"),
       W("bank"), W("cards")>>]
Raw39 ==
  [card_type |-> "Bank Offer",
   offer_description |->
     <<W("flat"), W("inr"), N(100), W("off"), W("on"), W("state"),
       W("bank"), W("of"), W("india"), W("cards")>>]
Raw40 ==
  [card_type |-> "EMI Cashback",
   offer_description |->
     <<W("get"), W("inr"), N(300), W("cashback")>>]
Raw41 ==
  [card_type |-> "Bank Offer",
   offer_description |->
     <<W("offer"), W("for"), W("dc"), W("holders"), W("with"),
       W("premium"), W("card")>>]
Raw42 ==
  [card_type |-> "Special Deal",
   offer_description |->
     <<W("up"), W("to"), N(10), W("%"), W("off"), W(","), W("max"),
       W("inr"), N(1500)>>]

ParseInputs ==
  {Raw1, Raw2, Raw3, Raw4, Raw5, Raw6, Raw7, Raw8, Raw9, Raw10, Raw11,
   Raw12, Raw13, Raw14, Raw15, Raw16, Raw17, Raw18, Raw19, Raw20,
   Raw21, Raw22, Raw23, Raw24, Raw25, Raw26, Raw27, Raw28, Raw29,
   Raw30, Raw31, Raw32, Raw33, Raw34, Raw35, Raw36, Raw37, Raw38,
   Raw39, Raw40, Raw41, Raw42}

InitParse ==
  /\ analyzer \in Analyzers
  /\ offers_data \in {<<o>> : o \in ParseInputs}
  /\ product_price = 0
  /\ pc = "parsing"
  /\ parsed_offers = <<>>
  /\ all_ranked_offers = <<>>
  /\ raised = "none"
  /\ NoRun

(* parse_offer(offer) returns the Offer. *)
ParseOffer ==
  /\ pc = "parsing"
  /\ parsed_offers' = <<parse_offer(analyzer, offers_data[1])>>
  /\ pc' = "parsed"
  /\ UNCHANGED <<analyzer, offers_data, product_price, all_ranked_offers, raised>>
  /\ UNCHANGED runVars

NextParse == ParseOffer

SpecParse == InitParse /\ [][NextParse]_vars

(* ---- properties ---- *)
Returned == pc = "returned"
Ranked == 1..Len(all_ranked_offers)
BankRecords == {i \in Ranked : all_ranked_offers[i].offer_type = "Bank Offer"}
OtherRecords == Ranked \ BankRecords
Rec(i) == all_ranked_offers[i]

(* C1: parse_offer followed by rank_offers never raises, whatever the raw  *)
(* offers and the price are (price 0 and negative prices included).        *)
C1_NeverRaises == pc # "raised"

(* C2: the score stored in a Bank Offer record lies between 0 and 100. *)
C2_ScoreBounds ==
  Returned =>
    \A i \in BankRecords :
      /\ 0 <= Rec(i).score
      /\ Rec(i).score <= 100 * Scale(product_price)
(* A Bank Offer record whose score was cut down to 100 and one that lies   *)
(* strictly inside the bounds.                                             *)
C2_Witness ==
  /\ Returned
  /\ \E i \in BankRecords : Rec(i).score = 100 * Scale(product_price)
  /\ \E i \in BankRecords :
       0 < Rec(i).score /\ Rec(i).score < 100 * Scale(product_price)

(* C3: the ranks of the Bank Offer records are exactly 1..N, N the number  *)
(* of Bank Offers parsed, each used once; a smaller rank never has a lower *)
(* score; Bank Offers with equal scores keep their input order.            *)
C3_RankContiguity ==
  Returned =>
    LET nBank == Cardinality({k \in 1..Len(parsed_offers) : IsBankOffer(parsed_offers[k])})
    IN /\ Cardinality(BankRecords) = nBank
       /\ {Rec(i).rank : i \in BankRecords} = 1..nBank
       /\ \A i, j \in BankRecords :
            /\ (i # j => Rec(i).rank # Rec(j).rank)
            /\ (Rec(i).rank < Rec(j).rank => Rec(i).score >= Rec(j).score)
            /\ (Rec(i).rank < Rec(j).rank /\ Rec(i).score = Rec(j).score
                  => Rec(i).src < Rec(j).src)
(* Three Bank Offers, two of them different offers with the same score and *)
(* a third with a higher score that came last in the input.                *)
C3_Witness ==
  /\ Returned
  /\ Cardinality(BankRecords) = 3
  /\ \E i, j, k \in BankRecords :
       /\ Rec(i).score = Rec(j).score
       /\ Rec(i).description # Rec(j).description
       /\ Rec(k).score > Rec(i).score
       /\ Rec(k).src > Rec(i).src /\ Rec(k).src > Rec(j).src

(* C4: the returned list holds all Bank Offer records first, in            *)
(* score-descending order, then all other records in their input order.    *)
C4_BankFirst ==
  Returned =>
    /\ \A i, j \in Ranked :
         i < j /\ Rec(i).offer_type # "Bank Offer" => Rec(j).offer_type # "Bank Offer"
    /\ \A i, j \in BankRecords : i < j => Rec(i).score >= Rec(j).score
    /\ \A i, j \in OtherRecords : i < j => Rec(i).src < Rec(j).src
(* A list whose input had an other-type offer before a Bank Offer and two  *)
(* other-type offers.                                                      *)
C4_Witness ==
  /\ Returned
  /\ Cardinality(OtherRecords) = 2
  /\ \E i \in BankRecords : \E j \in OtherRecords : Rec(j).src < Rec(i).src

(* C5: a record of another type than Bank Offer has score and rank null,   *)
(* a Bank Offer record has a score and a rank.                             *)
C5_OnlyBankScored ==
  Returned =>
    /\ \A i \in OtherRecords : Rec(i).score = NoneF /\ Rec(i).rank = NoneF
    /\ \A i \in BankRecords : Rec(i).score # NoneF /\ Rec(i).rank # NoneF
C5_Witness ==
  Returned /\ BankRecords # {} /\ OtherRecords # {}

(* C6: is_applicable is false if and only if min_spend is set and the      *)
(* price is below it, a min_spend extracted as 0 included.                 *)
C6_ApplicableIff ==
  Returned =>
    \A i \in Ranked :
      (Rec(i).is_applicable = FALSE)
        <=> (Rec(i).min_spend # NoneF /\ product_price < Rec(i).min_spend)

(* C7 as stated: for every price the net effective price lies between 0    *)
(* and the price.                                                          *)
C7_NetPriceBoundsAnyPrice ==
  Returned =>
    \A i \in Ranked :
      /\ 0 <= Rec(i).net_effective_price
      /\ Rec(i).net_effective_price <= 100 * product_price
(* C7 amended: for every price >= 0 the net effective price lies between 0 *)
(* and the price.                                                          *)
C7_NetPriceBounds ==
  Returned /\ product_price >= 0 =>
    \A i \in Ranked :
      /\ 0 <= Rec(i).net_effective_price
      /\ Rec(i).net_effective_price <= 100 * product_price
(* An applicable offer whose discount exceeds the price (net price 0), a   *)
(* discounted one and one that is not applicable, at a price >= 0.         *)
C7_Witness ==
  /\ Returned /\ product_price > 0
  /\ \E i \in Ranked :
       /\ Rec(i).is_applicable
       /\ 0 < Rec(i).net_effective_price
       /\ Rec(i).net_effective_price < 100 * product_price
  /\ \E i \in Ranked : ~Rec(i).is_applicable
  /\ \E i \in Ranked :
       Rec(i).is_applicable /\ Rec(i).amount > product_price /\ Rec(i).net_effective_price = 0

(* The Bank Offer records whose min_spend exceeds a price > 0 by more than *)
(* 50 percent of the price.                                                *)
HighShortfall ==
  {i \in BankRecords :
     /\ product_price > 0
     /\ Rec(i).min_spend # NoneF
     /\ Rec(i).min_spend > product_price
     /\ 100 * (Rec(i).min_spend - product_price) > 50 * product_price}

(* C8 as stated: with a shortfall above 50 percent the score is 15,        *)
(* whatever the discount, bank, card type, provider and instant flag.      *)
C8_ForcedTo15 ==
  Returned =>
    \A i \in HighShortfall : Rec(i).score = 15 * Scale(product_price)
(* C8 amended: with a shortfall above 50 percent the running score is      *)
(* reset to 15, dropping the base score and the discount bonus, and the    *)
(* instant, bank, card-type, card-provider and digital-payment adjustments *)
(* of the analyzer are then added; the net effective price is the price.   *)
C8_ResetTo15 ==
  Returned =>
    \A i \in HighShortfall :
      /\ Rec(i).score =
           Clamp(15 * Scale(product_price)
                 + InstantBonus(analyzer, Rec(i), product_price)
                 + BankBonus(analyzer, Rec(i), product_price)
                 + CardTypeBonus(analyzer, Rec(i), product_price)
                 + CardProviderBonus(analyzer, Rec(i), product_price)
                 + DigitalBonus(analyzer, Rec(i), product_price), product_price)
      /\ Rec(i).net_effective_price = 100 * product_price
(* Scenario 2 on the Amazon analyzer: score 30.5 = 15 + 5 + 7.5 + 3. *)
C8_Witness ==
  /\ Returned /\ analyzer = "amazon" /\ product_price = 10000
  /\ \E i \in HighShortfall :
       /\ Rec(i).min_spend = 20000 /\ Rec(i).amount = 1000
       /\ Rec(i).bank = "HDFC" /\ Rec(i).card_type = "Credit" /\ Rec(i).is_instant
       /\ 2 * Rec(i).score = 61 * Scale(product_price)

(* The records of applicable offers that carry a positive percentage and a *)
(* positive flat amount.                                                   *)
BothBases ==
  {i \in Ranked :
     Rec(i).is_applicable /\ Rec(i).percentage # NoneF /\ Rec(i).percentage > 0
       /\ Rec(i).amount > 0}

(* C9: with both a positive percentage and a positive flat amount the      *)
(* ranker uses the percentage only: the net price is                       *)
(* max(price - percentage/100*price, 0), the discount bonus is             *)
(* min(percentage*2, 50) and the score does not depend on the amount; the  *)
(* flat amount is used when the percentage is absent or not positive.      *)
C9_PercentageBasis ==
  Returned =>
    /\ \A i \in BothBases :
         /\ Rec(i).net_effective_price
              = Max2(100 * product_price - Rec(i).percentage * product_price, 0)
         /\ i \in BankRecords /\ product_price > 0 =>
              Rec(i).score =
                Clamp(MinSpendAdjust(80 * Scale(product_price)
                                     + Min2(2 * Rec(i).percentage * Scale(product_price),
                                            50 * Scale(product_price)),
                                     Rec(i), product_price)
                      + InstantBonus(analyzer, Rec(i), product_price)
                      + BankBonus(analyzer, Rec(i), product_price)
                      + CardTypeBonus(analyzer, Rec(i), product_price)
                      + CardProviderBonus(analyzer, Rec(i), product_price), product_price)
    /\ \A i \in Ranked :
         Rec(i).is_applicable /\ ~(Rec(i).percentage # NoneF /\ Rec(i).percentage > 0) =>
           Rec(i).net_effective_price
             = Max2(100 * product_price - 100 * Rec(i).amount, 0)
(* A Croma Bank Offer with both bases whose score stays below 100, so that *)
(* the size of the discount bonus shows, and an other-type offer with both *)
(* bases.                                                                  *)
C9_Witness ==
  /\ Returned /\ analyzer = "croma" /\ product_price > 0
  /\ \E i \in BothBases \cap BankRecords :
       /\ Rec(i).score < 100 * Scale(product_price)
       /\ 100 * Rec(i).amount # Rec(i).percentage * product_price
  /\ BothBases \cap OtherRecords # {}

(* The capture of the first percentage-with-cap pattern of extract_amount  *)
(* that matches the description, or 0.                                     *)
CapClause(toks) ==
  FirstHit(<<Search([i \in 1..Len(toks) |-> percent1(toks, i)]),
             Search([i \in 1..Len(toks) |-> percent2(toks, i)]),
             Search([i \in 1..Len(toks) |-> percent3(toks, i)])>>)

(* C10: for a percentage-with-cap description the parser stores the cap in *)
(* amount and leaves percentage absent.                                    *)
C10_CapNotPercentage ==
  pc # "scraping" =>
    \A k \in 1..Len(parsed_offers) :
      LET o == parsed_offers[k]
          cap == CapClause(o.description)
      IN cap # 0 => o.amount = o.description[cap].n /\ o.percentage = NoneF

(* ---- the scoring formula of the specification ---- *)
(* The terms of the formula for record r at price p > 0, each multiplied   *)
(* by 2 * p as the scores are.                                             *)
Scored == pc = "scored"
ApplicableAt(r, p) == r.min_spend = NoneF \/ r.min_spend <= p
TermD(r, p) ==
  IF r.percentage # NoneF /\ r.percentage > 0
  THEN Min2(2 * r.percentage * 2 * p, 50 * 2 * p)
  ELSE Min2(2 * 100 * r.amount * 2, 50 * 2 * p)
TermM(r, p) ==
  IF r.min_spend = NoneF THEN 20 * 2 * p
  ELSE IF 10 * r.min_spend <= 9 * p THEN 10 * 2 * (p - r.min_spend)
  ELSE 0
TermI(r, p) == IF r.is_instant THEN 5 * 2 * p ELSE 0
TermB(a, r, p) ==
  IF r.bank = NoneS THEN -5 * 2 * p ELSE (BankScore(a, r.bank) - 70) * p
TermC(r, p) ==
  IF r.card_type = "Credit" THEN 3 * 2 * p
  ELSE IF r.card_type = "Credit/Debit" THEN 2 * 2 * p
  ELSE IF r.card_type = "Debit" THEN 1 * 2 * p
  ELSE 0
TermP(r, p) ==
  IF r.card_provider = NoneS THEN 0
  ELSE IF r.card_provider \in {"Visa", "Mastercard"} THEN 2 * 2 * p
  ELSE IF r.card_provider \in {"RuPay", "Diners Club"} THEN 3 * 2 * p
  ELSE IF r.card_provider \in {"American Express", "Amex"} THEN 4 * 2 * p
  ELSE 1 * 2 * p
TermDigital(r, p) == IF r.bank \in DigitalBanks THEN 5 * 2 * p ELSE 0
ClampTo100(x, p) == IF x < 0 THEN 0 ELSE IF x > 100 * 2 * p THEN 100 * 2 * p ELSE x

C12_SameScoreInAllAnalyzers ==
  Scored =>
    LET offer == parsed_offers[1]
    IN product_price > 0 /\ offer.percentage = NoneF /\ offer.bank \notin DigitalBanks =>
         \A b \in Analyzers :
           calculate_offer_score(b, offer, product_price) = Rec(1).score

(* ---- properties of parse_offer ---- *)
Parsed == pc = "parsed"
TheOffer == parsed_offers[1]
RawTitle == offers_data[1].card_type
Description == offers_data[1].offer_description

(* The banks a description mentions for an analyzer: the names of the      *)
(* first tier the analyzer consults (alias table, registry names,          *)
(* colloquial variants) that has an entry occurring in the description.    *)
MentionedBanks(a, toks) ==
  LET ph == {bank_name_patterns(a)[k][1] : k \in PatternHits(a, toks)}
      dh == {sorted_banks(a)[k][1] : k \in DirectHits(a, toks)}
      vh == {bank_variations(a)[k][2] : k \in VariationHits(a, toks)}
  IN IF a = "jiomart" THEN vh
     ELSE IF ph # {} THEN ph
     ELSE IF dh # {} THEN dh
     ELSE vh

(* C13: when the description mentions several distinct banks, extract_bank *)
(* returns all of them, sorted alphabetically and joined by commas, never  *)
(* only one of them; it returns None only when no bank is mentioned.       *)
C13_AllBanksJoined ==
  Parsed =>
    LET found == MentionedBanks(analyzer, Description)
    IN /\ Cardinality(found) >= 2 =>
            /\ TheOffer.bank \notin found
            /\ TheOffer.bank = JoinSorted(found)
       /\ TheOffer.bank = NoneS <=> found = {}

(* The pairs <<A, B>> of alias-table keys such that the description has an *)
(* alias of A as whole words and, inside those words, an alias of the      *)
(* different bank B that is shorter.                                       *)
ShadowedPairs(a, toks) ==
  LET tbl == bank_name_patterns(a)
      at(x, i) == /\ i + Len(x) - 1 <= Len(toks)
                  /\ \A k \in 1..Len(x) : toks[i + k - 1].w = x[k]
      inside(x, i, y) == y # x /\ Has(SubSeq(toks, i, i + Len(x) - 1), y)
  IN {<<tbl[kA][1], tbl[kB][1]>> : <<kA, kB>> \in
        {p \in (1..Len(tbl)) \X (1..Len(tbl)) :
           /\ p[1] # p[2]
           /\ \E jA \in 1..Len(tbl[p[1]][2]) : \E jB \in 1..Len(tbl[p[2]][2]) :
                \E i \in 1..Len(toks) :
                   /\ at(tbl[p[1]][2][jA], i)
                   /\ inside(tbl[p[1]][2][jA], i, tbl[p[2]][2][jB])}}

(* C14: the alias tier tests aliases longest first: when the description   *)
(* contains an alias of bank A that itself contains a shorter alias of a   *)
(* different bank B, extract_bank returns A and not B.                     *)
C14_LongestAliasFirst ==
  Parsed =>
    \A p \in ShadowedPairs(analyzer, Description) : TheOffer.bank = p[1]

(* bank in self.bank_scores *)
InRegistry(a, bank) ==
  \E k \in 1..Len(bank_scores(a)) : bank_scores(a)[k][1] = bank

(* C15: every bank name extract_bank can return has an entry in the        *)
(* registry bank_scores: every key of the alias table, every target of the *)
(* colloquial variants, and the bank of every parsed offer, in Croma also  *)
(* when it joins several banks; the reputation bonus of a recognized bank  *)
(* is therefore computed from a registry score.                            *)
C15_ReturnedBankInRegistry ==
  Parsed =>
    /\ \A k \in 1..Len(bank_name_patterns(analyzer)) :
         InRegistry(analyzer, bank_name_patterns(analyzer)[k][1])
    /\ \A k \in 1..Len(bank_variations(analyzer)) :
         InRegistry(analyzer, bank_variations(analyzer)[k][2])
    /\ TheOffer.bank # NoneS => InRegistry(analyzer, TheOffer.bank)

(* The capture positions of the patterns of extract_amount in the order    *)
(* the claim gives: the flat group, the percentage-with-cap group (the     *)
(* position of the cap), the cashback group.                               *)
AmountPatterns(a, toks) ==
  flat_patterns(a, toks) \o percent_patterns(a, toks) \o cashback_patterns(a, toks)
Matching(caps) == {k \in 1..Len(caps) : caps[k] # 0}

(* C16: extract_amount returns the number captured by the first pattern    *)
(* that matches, the groups tried in the order flat, percentage with cap   *)
(* (where the number is the cap), cashback; it returns 0 when no pattern   *)
(* matches.                                                                *)
C16_FirstMatchingPattern ==
  Parsed =>
    LET caps == AmountPatterns(analyzer, Description)
    IN IF Matching(caps) = {} THEN TheOffer.amount = 0
       ELSE \E k \in Matching(caps) :
              /\ \A j \in Matching(caps) : k <= j
              /\ TheOffer.amount = Description[caps[k]].n
(* A flat pattern and a percentage pattern both match and capture          *)
(* different numbers; the amount is the one of the flat pattern.           *)
C16_Witness ==
  /\ Parsed
  /\ LET flat == FirstHit(flat_patterns(analyzer, Description))
         percent == FirstHit(percent_patterns(analyzer, Description))
     IN /\ flat # 0 /\ percent # 0
        /\ Description[flat].n # Description[percent].n
        /\ TheOffer.amount = Description[flat].n
  /\ TheOffer.amount = 500

(* The type the first title keyword stands for, in the priority order bank *)
(* offer / instant discount / card offer, emi, cashback, exchange,         *)
(* partner; None when the title has none of them.                          *)
TitleKeywordType(card_title) ==
  LET t == TitleWords[card_title]
  IN IF HasAny(t, {<<"bank", "offer">>, <<"instant", "discount">>, <<"card", "offer">>})
     THEN "Bank Offer"
     ELSE IF Has(t, <<"emi">>) THEN "No Cost EMI"
     ELSE IF Has(t, <<"cashback">>) THEN "Cashback"
     ELSE IF Has(t, <<"exchange">>) THEN "Exchange Offer"
     ELSE IF Has(t, <<"partner">>) THEN "Partner Offers"
     ELSE NoneS

(* C17: a title keyword always outranks a description keyword: when the    *)
(* raw title contains a title keyword, the type of the parsed offer is the *)
(* one of the first matching title keyword, whatever the description       *)
(* contains.                                                               *)
C17_TitleOutranksDescription ==
  Parsed =>
    (TitleKeywordType(RawTitle) # NoneS => TheOffer.type = TitleKeywordType(RawTitle))

(* The raw title is empty or the placeholder "summary". *)
Placeholder(card_title) ==
  card_title = "" \/ TitleWords[card_title] = <<W("summary")>>

(* C18: the title of a parsed offer is never empty: it is "Bank Offer"     *)
(* when the type is Bank Offer, the offer type when the raw title is empty *)
(* or a placeholder, and the raw title otherwise.                          *)
C18_TitleNeverEmpty ==
  Parsed =>
    /\ TheOffer.title # ""
    /\ TheOffer.title = IF TheOffer.type = "Bank Offer" THEN "Bank Offer"
                        ELSE IF Placeholder(RawTitle) THEN TheOffer.type
                        ELSE RawTitle

(* The word "card" appears; the vocabulary that lets a card be inferred a  *)
(* credit card; the one that lets it be inferred a debit card.             *)
CardWord(toks) == \E i \in 1..Len(toks) : toks[i].w = "card"
CreditVocabulary(toks) ==
  HasAny(toks, {<<"premium">>, <<"rewards">>, <<"cashback">>, <<"points">>})
DebitVocabulary(toks) == Has(toks, <<"atm">>)

(* C19: extract_card_type returns "Credit/Debit" exactly when a credit     *)
(* pattern and a debit pattern match, "Credit" or "Debit" when only one    *)
(* family matches; when neither matches and the word "card" appears it     *)
(* infers Credit from the reward vocabulary, else Debit from "atm"; in     *)
(* every other case it returns None.                                       *)
C19_CardTypeFamilies ==
  Parsed /\ analyzer # "flipkart" =>
    LET toks == Description
        credit == credit_patterns(toks)
        debit == debit_patterns(toks)
        card_type == TheOffer.card_type
    IN /\ card_type = "Credit/Debit" <=> credit /\ debit
       /\ credit /\ ~debit => card_type = "Credit"
       /\ debit /\ ~credit => card_type = "Debit"
       /\ ~credit /\ ~debit /\ CardWord(toks) /\ CreditVocabulary(toks) =>
            card_type = "Credit"
       /\ ~credit /\ ~debit /\ CardWord(toks) /\ ~CreditVocabulary(toks)
            /\ DebitVocabulary(toks) => card_type = "Debit"
       /\ ~credit /\ ~debit
            /\ ~(CardWord(toks) /\ (CreditVocabulary(toks) \/ DebitVocabulary(toks))) =>
            card_type = NoneS
(* Scenario 6: a description with "credit card" and "debit card". *)
C19_Witness ==
  /\ Parsed /\ analyzer = "amazon"
  /\ Has(Description, <<"credit", "card">>) /\ Has(Description, <<"debit", "card">>)
  /\ credit_patterns(Description) /\ debit_patterns(Description)
  /\ TheOffer.card_type = "Credit/Debit"

(* The positions of the dict elements of offers_data, and the position of  *)
(* the k-th of them.                                                       *)
DictPositions == {j \in 1..Len(offers_data) : IsDict(offers_data[j])}
DictPosition(k) ==
  CHOOSE j \in DictPositions : Cardinality({m \in DictPositions : m <= j}) = k

(* C20: rank_offers returns exactly one record for every dict element of   *)
(* offers_data: elements that are not dicts are dropped, no offer is       *)
(* duplicated or lost, and an empty offers_data gives the empty list.      *)
C20_OneRecordPerDict ==
  Returned =>
    /\ Len(all_ranked_offers) = Cardinality(DictPositions)
    /\ \A k \in 1..Cardinality(DictPositions) :
         /\ Cardinality({i \in Ranked : Rec(i).src = k}) = 1
         /\ \A i \in Ranked :
              Rec(i).src = k =>
                Rec(i).description = offers_data[DictPosition(k)].offer_description
    /\ (offers_data = <<>> => all_ranked_offers = <<>>)
(* The same offer twice with an element that is not a dict between them.   *)
C20_Witness ==
  /\ Returned
  /\ Len(offers_data) = 3
  /\ ~IsDict(offers_data[2])
  /\ IsDict(offers_data[1]) /\ offers_data[1] = offers_data[3]
  /\ Len(all_ranked_offers) = 2

(* ---- the scrapers' ranking of inapplicable offers ---- *)
(* C30: for every price > 0 and every analyzer, a Bank Offer whose         *)
(* min_spend exceeds the price by more than 50 percent of the price has a  *)
(* strictly lower score than every applicable Bank Offer (min_spend absent *)
(* or at most the price) of the same call, and stands after it in the      *)
(* list rank_offers returns.                                               *)
C30_HighShortfallAfterApplicable ==
  Returned =>
    \A i \in HighShortfall :
      \A j \in BankRecords :
        ApplicableAt(Rec(j), product_price) =>
          Rec(i).score < Rec(j).score /\ j < i
(* Scenario 2 after an applicable Bank Offer, and a high-shortfall offer   *)
(* with the largest adjustments after an applicable one without a bank.    *)
C30_Witness ==
  /\ Returned /\ product_price = 10000
  /\ \E i \in HighShortfall :
       \E j \in BankRecords :
         /\ ApplicableAt(Rec(j), product_price)
         /\ Rec(j).bank = NoneS
         /\ Rec(i).bank # NoneS /\ Rec(i).is_instant
         /\ j < i

(* ---- the scrapers' runs over a document ---- *)
(* A URL is the sequence of its path segments, a "?" token opening the     *)
(* query; a price string is a sequence of tokens like a description.       *)
UrlA1 == <<W("amazon"), W("dp"), W("b0a1")>>
UrlA2 == <<W("amazon"), W("dp"), W("b0a2")>>
UrlA3 == <<W("amazon"), W("dp"), W("b0a3")>>
UrlC1 == <<W("croma"), W("p"), N(301)>>
UrlF1 == <<W("flipkart"), W("p"), W("itm1")>>
UrlF2 == <<W("flipkart"), W("p"), W("itm2")>>
UrlJ1 == <<W("jiomart"), W("p"), N(590)>>
UrlJ2 == <<W("jiomart"), W("p"), N(591), W("?"), W("source")>>
UrlJ3 == <<W("jiomart"), W("p"), N(592)>>
UrlJNoSku == <<W("jiomart"), W("p"), W("phone")>>
NoUrl == <<>>

Price10000 == <<W("rupee"), N(10000)>>
Price25000 == <<W("rupee"), N(25000)>>
CurrentlyUnavailable == <<W("currently"), W("unavailable")>>
PriceNotAvailable == <<W("price"), W("not"), W("available")>>

(* re.search(r'/([0-9]+)(?:\?|$)', url): the first all-digit segment that  *)
(* ends the URL or is followed by the query, or None.                      *)
extract_sku_from_url(url) ==
  LET hits == {i \in 1..Len(url) :
                 IsNum(url, i) /\ (i = Len(url) \/ IsW(url, i + 1, {"?"}))}
  IN IF hits = {} THEN NoneF ELSE url[Min(hits)].n

(* extract_price_amount: the first number of the price string, or 0.0. *)
extract_price_amount(price_str) ==
  LET hits == {i \in 1..Len(price_str) : IsNum(price_str, i)}
  IN IF hits = {} THEN 0 ELSE price_str[Min(hits)].n

(* name.lower() of the store names, and the retailer keywords they contain. *)
StoreNames == {"Amazon", "Amazon.in", "Croma", "Flipkart", "JioMart", "Reliance Digital"}
NameLower ==
  ("Amazon" :> "amazon") @@ ("Amazon.in" :> "amazon.in") @@ ("Croma" :> "croma") @@
  ("Flipkart" :> "flipkart") @@ ("JioMart" :> "jiomart") @@
  ("Reliance Digital" :> "reliance digital")
NameInfix ==
  {<<"amazon", "amazon">>, <<"amazon", "amazon.in">>, <<"croma", "croma">>,
   <<"flipkart", "flipkart">>, <<"jiomart", "jiomart">>}
(* 'amazon' in name.lower(), 'croma' in name.lower(), ... : the keyword of *)
(* a scraper is the name of its analyzer.                                  *)
IsStoreOf(a, link) == <<a, NameLower[link.name]>> \in NameInfix

(* A store link: a dict with the keys name and url and the keys of `keys`  *)
(* among price, in_stock, price_availability_details and ranked_offers;    *)
(* the field of an absent key holds a filler.                              *)
OptionalKeys == {"price", "in_stock", "price_availability_details", "ranked_offers"}
StoreLink(name, url, keys, price, ranked_offers) ==
  [name |-> name, url |-> url, keys |-> keys, price |-> price,
   in_stock |-> "None", price_availability_details |-> "None",
   ranked_offers |-> ranked_offers]

(* The ranked_offers a link holds from an earlier run. *)
EarlierOffers(a) == rank_offers(a, ParseAll(a, <<Raw4>>), 10000)

(* store_link.get('ranked_offers') is a non-empty list. *)
HasOffers(link) == "ranked_offers" \in link.keys /\ Len(link.ranked_offers) > 0
(* store_link.get('price', default) *)
GetPrice(link) == IF "price" \in link.keys THEN link.price ELSE <<W("rupee"), N(0)>>

(* An item of variants, all_matching_products or unmapped: the keys it has *)
(* besides store_links, and its store_links list.                          *)
Item(keys, store_links) == [keys |-> keys, store_links |-> store_links]

(* The document is the scraped_data of one entry:                          *)
(* <<variants, all_matching_products, unmapped>>.                          *)
Sections == <<"variants", "all_matching_products", "unmapped">>
AllPaths(d) ==
  UNION {UNION {{<<s, i, j>> : j \in 1..Len(d[s][i].store_links)} :
                  i \in 1..Len(d[s])} : s \in 1..Len(d)}
LinkAt(d, p) == d[p[1]][p[2]].store_links[p[3]]
ItemAt(d, p) == d[p[1]][p[2]]

(* The order in which the traversals meet the links: section, item, link. *)
PathBefore(p, q) ==
  \/ p[1] < q[1]
  \/ p[1] = q[1] /\ p[2] < q[2]
  \/ p[1] = q[1] /\ p[2] = q[2] /\ p[3] < q[3]
RECURSIVE PathSeq(_)
PathSeq(S) ==
  IF S = {} THEN <<>>
  ELSE LET first == CHOOSE p \in S : \A q \in S \ {p} : PathBefore(p, q)
       IN <<first>> \o PathSeq(S \ {first})

(* ---- the selection of the store links ---- *)
(* find_all_amazon_store_links and find_all_flipkart_store_links take the  *)
(* links whose name contains the retailer in the store_links of the items  *)
(* of the three sections; process_croma_store_links looks in variants only. *)
find_store_links(a, d) ==
  PathSeq({p \in AllPaths(d) :
             /\ IsStoreOf(a, LinkAt(d, p))
             /\ a = "croma" => p[1] = 1})

(* find_jiomart_entries_needing_offers takes a dict with the keys name and *)
(* url for a store link and does not search it: the store_links of an item *)
(* with both keys are not visited.                                         *)
TakenForStoreLink(item) == {"name", "url"} \subseteq item.keys
(* The names the traversal returns on before testing for jiomart. *)
OtherStores == {"amazon.in", "amazon", "croma", "flipkart"}
find_jiomart_entries_needing_offers(d, rescrape) ==
  PathSeq({p \in AllPaths(d) :
             /\ ~TakenForStoreLink(ItemAt(d, p))
             /\ NameLower[LinkAt(d, p).name] \notin OtherStores
             /\ IsStoreOf("jiomart", LinkAt(d, p))
             /\ rescrape \/ ~HasOffers(LinkAt(d, p))
             /\ extract_sku_from_url(LinkAt(d, p).url) # NoneF})

(* The links a run processes (start_idx = 0, max_entries = None). *)
find_links(a, d, rescrape) ==
  IF a = "jiomart" THEN find_jiomart_entries_needing_offers(d, rescrape)
  ELSE find_store_links(a, d)

(* ---- the fetch of the offers of one link ---- *)
(* What one attempt ends in: the page structure is missing (or the wait    *)
(* times out, or the HTTP status is not 200), an exception is raised, or   *)
(* the offers of the page are extracted.                                   *)
Missing == [kind |-> "missing", offers |-> <<>>]
Excepted == [kind |-> "exception", offers |-> <<>>]
Extracted(offers) == [kind |-> "extracted", offers |-> offers]
max_retries == 2

(* get_bank_offers, get_croma_offers, get_flipkart_offers and              *)
(* get_jiomart_offers from attempt k on: an attempt that extracts returns  *)
(* its offers, a failed attempt is retried unless it is the last, and the  *)
(* last failed attempt returns [] except for an exception in Amazon, which *)
(* returns [{"error": str(e)}].                                            *)
RECURSIVE get_offers(_, _, _)
get_offers(a, att, k) ==
  IF k > max_retries THEN <<>>
  ELSE IF att[k].kind = "extracted" THEN att[k].offers
  ELSE IF k < max_retries THEN get_offers(a, att, k + 1)
  ELSE IF att[k].kind = "exception" /\ a = "amazon" THEN <<ErrorRecord>>
  ELSE <<>>

(* The offers a product page shows. *)
PageOffers(a) == IF a = "jiomart" THEN <<JioMartApiOffer>> ELSE <<Raw1>>
(* The attempts of one fetch. *)
AttemptSeqs(a) ==
  {<<Missing, Missing>>, <<Excepted, Excepted>>, <<Missing, Excepted>>,
   <<Excepted, Extracted(PageOffers(a))>>, <<Extracted(PageOffers(a))>>,
   <<Extracted(<<>>)>>}
(* Every attempt of the fetch failed. *)
AllFailed(att) == \A k \in 1..Len(att) : att[k].kind # "extracted"

(* ---- the price and availability of one link ---- *)
(* What extract_price_and_availability (Amazon) and                        *)
(* extract_flipkart_price_and_stock return: the price string, <<>> when no *)
(* price is found, the availability and the Sold Out tag.                  *)
PageInfos(a) ==
  IF a = "amazon"
  THEN {[price |-> Price10000, availability |-> "Available", sold_out |-> FALSE],
        [price |-> CurrentlyUnavailable, availability |-> "Currently unavailable",
         sold_out |-> FALSE],
        [price |-> <<>>, availability |-> "Available", sold_out |-> FALSE]}
  ELSE IF a = "flipkart"
  THEN {[price |-> Price25000, availability |-> "None", sold_out |-> FALSE],
        [price |-> <<>>, availability |-> "None", sold_out |-> TRUE]}
  ELSE {[price |-> <<>>, availability |-> "None", sold_out |-> FALSE]}

(* ---- the update of one store link ---- *)
(* An update in which every scraper writes the price keys of Amazon. *)
update_price_EveryScraper(a, link, info, offers_found) ==
  [link EXCEPT
     !.price = IF info.availability = "Currently unavailable"
               THEN CurrentlyUnavailable
               ELSE IF info.price # <<>> THEN info.price
               ELSE IF "price" \notin link.keys \/ link.price = <<>>
               THEN PriceNotAvailable
               ELSE link.price,
     !.price_availability_details = info.availability,
     !.keys = link.keys \cup {"price", "price_availability_details"}]

(* The price, in_stock and price_availability_details keys the Amazon and  *)
(* Flipkart loops write before ranking; the other loops write none.        *)
update_price(a, link, info, offers_found) ==
  IF a = "amazon"
  THEN [link EXCEPT
          !.price = IF info.availability = "Currently unavailable"
                    THEN CurrentlyUnavailable
                    ELSE IF info.price # <<>> THEN info.price
                    ELSE IF "price" \notin link.keys \/ link.price = <<>>
                    THEN PriceNotAvailable
                    ELSE link.price,
          !.price_availability_details = info.availability,
          !.keys = link.keys \cup {"price", "price_availability_details"}]
  ELSE IF a = "flipkart"
  THEN [link EXCEPT
          !.price = IF info.price # <<>> THEN info.price ELSE link.price,
          !.in_stock = IF info.sold_out THEN "False"
                       ELSE IF offers_found THEN "True" ELSE "None",
          !.keys = link.keys \cup {"in_stock"}
                   \cup (IF info.price # <<>> THEN {"price"} ELSE {})]
  ELSE link

(* store_link['ranked_offers'] = ranked_offers *)
set_ranked_offers(link, ranked_offers) ==
  [link EXCEPT !.ranked_offers = ranked_offers,
               !.keys = link.keys \cup {"ranked_offers"}]

(* ---- the visited-URL file ---- *)
(* A line of the file is a URL or a comment. *)
Comment == <<W("#")>>
(* load_visited_urls: the lines that are not empty and are no comment. *)
load_visited_urls(file) ==
  {file[k] : k \in {j \in 1..Len(file) : file[j] # <<>> /\ ~IsW(file[j], 1, {"#"})}}
(* The scrapers that skip a link without URL or with a visited URL. *)
SkipsVisited(a) == a \in {"amazon", "croma"}
(* The scrapers that append the processed URL to the file. *)
AppendsVisited(a) == a \in {"amazon", "flipkart"}

(* The period of the progress backup, in processed links: 100 in Amazon,   *)
(* 10 in Croma and Flipkart and 20 in JioMart, scaled to the length of the *)
(* documents of the model.                                                 *)
BackupEvery == 2

(* ---- the documents ---- *)
AmazonLink(name, url) == StoreLink(name, url, {}, <<>>, <<>>)
Doc1 ==
  <<<<Item({"colour"},
           <<StoreLink("Amazon", UrlA1, {"price"}, Price10000, <<>>),
             StoreLink("Flipkart", UrlF1, {"price", "ranked_offers"}, Price25000,
                       EarlierOffers("flipkart")),
             StoreLink("JioMart", UrlJ1, {"price", "ranked_offers"}, Price10000,
                       EarlierOffers("jiomart")),
             StoreLink("Croma", UrlC1, {"price"}, Price25000, <<>>)>>)>>,
    <<Item({},
           <<StoreLink("Amazon.in", UrlA2, {}, <<>>, <<>>),
             StoreLink("JioMart", UrlJ2, {}, <<>>, <<>>)>>)>>,
    <<Item({"name", "url"},
           <<StoreLink("JioMart", UrlJ3, {"price"}, Price25000, <<>>),
             StoreLink("Flipkart", UrlF2, {}, <<>>, <<>>),
             StoreLink("Reliance Digital", NoUrl, {"price"}, Price10000, <<>>)>>)>>>>
Doc2 ==
  <<<<Item({"colour"},
           <<AmazonLink("Amazon", UrlA1), AmazonLink("Amazon.in", UrlA1),
             StoreLink("JioMart", UrlJNoSku, {"price"}, Price10000, <<>>)>>),
      Item({"colour"},
           <<AmazonLink("Amazon", UrlA2), AmazonLink("Amazon", NoUrl),
             StoreLink("Croma", UrlC1, {"price", "ranked_offers"}, Price25000,
                       EarlierOffers("croma"))>>)>>,
    <<>>,
    <<Item({},
           <<StoreLink("Amazon", UrlA3, {"price"}, Price25000, <<>>),
             StoreLink("Croma", UrlC1, {"price"}, Price25000, <<>>)>>)>>>>
Doc3 ==
  <<<<Item({"colour"},
           <<StoreLink("Amazon", UrlA1, {"price", "ranked_offers"}, Price25000,
                       EarlierOffers("amazon")),
             StoreLink("Croma", UrlC1, {"price", "ranked_offers"}, Price25000,
                       EarlierOffers("croma")),
             StoreLink("JioMart", UrlJ1, {"price", "ranked_offers"}, Price25000,
                       EarlierOffers("jiomart"))>>)>>,
    <<>>,
    <<>>>>
Documents == {Doc1, Doc2, Doc3}
VisitedFiles == {<<Comment>>, <<Comment, UrlA1, UrlF1, UrlC1>>}

(* ---- the run of a scraper ---- *)
InitRun ==
  /\ analyzer \in Analyzers
  /\ offers_data = <<>>
  /\ product_price = 0
  /\ pc = "start"
  /\ parsed_offers = <<>>
  /\ all_ranked_offers = <<>>
  /\ raised = "none"
  /\ data \in Documents
  /\ rescrape_all \in (IF analyzer = "jiomart" THEN BOOLEAN ELSE {FALSE})
  /\ links = <<>>
  /\ idx = 0
  /\ visited_urls = {}
  /\ visited_file \in VisitedFiles
  /\ attempts = <<>>
  /\ fetched = <<>>
  /\ backups = <<>>
  /\ output_file = <<>>

(* The document is loaded and the store links are selected; the Flipkart   *)
(* and JioMart functions return when there is none.                        *)
Load ==
  LET found == find_links(analyzer, data, rescrape_all)
  IN /\ pc = "start"
     /\ links' = found
     /\ visited_urls' = IF analyzer = "jiomart" THEN {} ELSE load_visited_urls(visited_file)
     /\ pc' = IF found = <<>> /\ analyzer \in {"flipkart", "jiomart"} THEN "done" ELSE "loop"
     /\ UNCHANGED <<analyzer, offers_data, product_price, parsed_offers,
                    all_ranked_offers, raised, data, rescrape_all, idx,
                    visited_file, attempts, fetched, backups, output_file>>

(* The link the loop is at. *)
Current == LinkAt(data, links[idx + 1])
(* A test that skips the links without URL only. *)
Skipped_UrlOnly(a, link) == SkipsVisited(a) /\ link.url = NoUrl

(* if not url: continue, and if url in visited_urls: continue *)
Skipped(a, link) == SkipsVisited(a) /\ (link.url = NoUrl \/ link.url \in visited_urls)

(* One iteration that ends in continue. *)
SkipLink ==
  /\ pc = "loop"
  /\ idx < Len(links)
  /\ Skipped(analyzer, Current)
  /\ idx' = idx + 1
  /\ UNCHANGED <<analyzer, offers_data, product_price, pc, parsed_offers,
                 all_ranked_offers, raised, data, rescrape_all, links,
                 visited_urls, visited_file, attempts, fetched, backups, output_file>>

(* One iteration that scrapes the link: price and availability, the fetch, *)
(* the ranking, the visited list and the progress backup.  An exception of *)
(* rank_offers leaves the loop with the keys written before the call.      *)
ProcessLink(info, att) ==
  LET p == links[idx + 1]
      offers == get_offers(analyzer, att, 1)
      priced == update_price(analyzer, Current, info, Len(offers) > 0)
      price == extract_price_amount(GetPrice(priced))
      parsed == ParseAll(analyzer, offers)
      exc == IF Len(offers) > 0 THEN Raises(analyzer, parsed, price) ELSE "none"
      ranked == IF Len(offers) > 0 THEN rank_offers(analyzer, parsed, price) ELSE <<>>
      done == [data EXCEPT ![p[1]][p[2]].store_links[p[3]] = set_ranked_offers(priced, ranked)]
  IN /\ pc = "loop"
     /\ idx < Len(links)
     /\ ~Skipped(analyzer, Current)
     /\ attempts' = att
     /\ offers_data' = offers
     /\ fetched' = Append(fetched, Current.url)
     /\ IF exc # "none"
        THEN /\ data' = [data EXCEPT ![p[1]][p[2]].store_links[p[3]] = priced]
             /\ product_price' = price
             /\ parsed_offers' = parsed
             /\ raised' = exc
             /\ pc' = "finally"
             /\ UNCHANGED <<all_ranked_offers, idx, visited_urls, visited_file, backups>>
        ELSE /\ data' = done
             /\ product_price' = IF Len(offers) > 0 THEN price ELSE product_price
             /\ parsed_offers' = IF Len(offers) > 0 THEN parsed ELSE parsed_offers
             /\ all_ranked_offers' = ranked
             /\ visited_file' = IF AppendsVisited(analyzer)
                                THEN Append(visited_file, Current.url) ELSE visited_file
             /\ visited_urls' = IF analyzer = "amazon"
                                THEN visited_urls \cup {Current.url} ELSE visited_urls
             /\ backups' = IF (idx + 1) % BackupEvery = 0
                           THEN Append(backups, Len(fetched) + 1) ELSE backups
             /\ idx' = idx + 1
             /\ UNCHANGED <<raised, pc>>
     /\ UNCHANGED <<analyzer, rescrape_all, links, output_file>>

(* The user interrupts the loop: except KeyboardInterrupt. *)
Interrupt ==
  /\ pc = "loop"
  /\ idx < Len(links)
  /\ raised' = "KeyboardInterrupt"
  /\ pc' = "finally"
  /\ UNCHANGED <<analyzer, offers_data, product_price, parsed_offers,
                 all_ranked_offers, data, rescrape_all, links, idx, visited_urls,
                 visited_file, attempts, fetched, backups, output_file>>

(* The loop ends after the last link. *)
EndLoop ==
  /\ pc = "loop"
  /\ idx = Len(links)
  /\ pc' = "finally"
  /\ UNCHANGED <<analyzer, offers_data, product_price, parsed_offers,
                 all_ranked_offers, raised, data, rescrape_all, links, idx,
                 visited_urls, visited_file, attempts, fetched, backups, output_file>>

(* A save placed after the try statement instead of in its finally clause: *)
(* an exception other than KeyboardInterrupt leaves the function before it. *)
Finally_AfterTry ==
  /\ pc = "finally"
  /\ output_file' = IF raised \in {"none", "KeyboardInterrupt"} THEN <<data>> ELSE output_file
  /\ pc' = "done"
  /\ UNCHANGED <<analyzer, offers_data, product_price, parsed_offers,
                 all_ranked_offers, raised, data, rescrape_all, links, idx,
                 visited_urls, visited_file, attempts, fetched, backups>>

(* finally: the driver quits and the document is written to output_file;   *)
(* an exception other than KeyboardInterrupt then leaves the function.     *)
Finally ==
  /\ pc = "finally"
  /\ output_file' = <<data>>
  /\ pc' = "done"
  /\ UNCHANGED <<analyzer, offers_data, product_price, parsed_offers,
                 all_ranked_offers, raised, data, rescrape_all, links, idx,
                 visited_urls, visited_file, attempts, fetched, backups>>

NextRun ==
  \/ Load
  \/ SkipLink
  \/ \E info \in PageInfos(analyzer), att \in AttemptSeqs(analyzer) : ProcessLink(info, att)
  \/ Interrupt
  \/ EndLoop
  \/ Finally

SpecRun == InitRun /\ [][NextRun]_vars

(* The steps of the program are taken as long as it runs; the interrupt is *)
(* the user's.                                                             *)
ProgramStep ==
  \/ Load
  \/ SkipLink
  \/ \E info \in PageInfos(analyzer), att \in AttemptSeqs(analyzer) : ProcessLink(info, att)
  \/ EndLoop
  \/ Finally
SpecRunFair == SpecRun /\ WF_vars(ProgramStep)

(* ---- the properties of the runs ---- *)
(* An iteration scraped the link at idx: the URL joined the fetched ones. *)
Scraped == fetched' # fetched
(* The link at idx as the iteration leaves it. *)
CurrentAfter == LinkAt(data', links[idx + 1])

(* C21: when the fetch of a link fails on every attempt, the scraper hands *)
(* an empty offer list on, the link ends with ranked_offers = [] and no    *)
(* record built from the failure appears in ranked_offers.                 *)
C21_FailedFetchRanksNothing ==
  [][(Scraped /\ AllFailed(attempts')) =>
       (offers_data' = <<>> /\ CurrentAfter.ranked_offers = <<>>)]_vars

(* No URL occurs twice among the fetched ones. *)
FetchedOnce == \A i, j \in 1..Len(fetched) : fetched[i] = fetched[j] => i = j

LoopStopped == pc = "finally"
(* The output file holds the document with every update made so far. *)
Saved == output_file = <<data>>

SameExcept(l, m, F) ==
  /\ l.name = m.name /\ l.url = m.url
  /\ \A f \in OptionalKeys \ F : l[f] = m[f] /\ (f \in l.keys <=> f \in m.keys)
(* The items, their own keys and the number of their store links stay. *)
SameShape ==
  /\ AllPaths(data') = AllPaths(data)
  /\ Len(data') = Len(data)
  /\ \A s \in 1..Len(data) :
       /\ Len(data'[s]) = Len(data[s])
       /\ \A i \in 1..Len(data[s]) : data'[s][i].keys = data[s][i].keys
(* A step of a run changes the store links of the scraper's retailer only, *)
(* and there only the keys of F.                                           *)
OnlyOwnKeys(F) ==
  /\ SameShape
  /\ \A p \in AllPaths(data) :
       IF IsStoreOf(analyzer, LinkAt(data, p))
       THEN SameExcept(LinkAt(data, p), LinkAt(data', p), F)
       ELSE LinkAt(data', p) = LinkAt(data, p)

(* C24 as stated: a scraper changes nothing but ranked_offers, and for     *)
(* Flipkart price and in_stock, of the store links of its own retailer.    *)
StatedKeys(a) ==
  IF a = "flipkart" THEN {"ranked_offers", "price", "in_stock"} ELSE {"ranked_offers"}
C24_OnlyRankedOffers ==
  [][pc # "start" => OnlyOwnKeys(StatedKeys(analyzer))]_vars
(* C24 amended: a scraper changes nothing but ranked_offers, for Flipkart  *)
(* also price and in_stock and for Amazon also price and                   *)
(* price_availability_details, of the store links of its own retailer: the *)
(* links of other retailers keep every field and the links of its own      *)
(* retailer get no other field added or changed.                           *)
WrittenKeys(a) ==
  IF a = "flipkart" THEN {"ranked_offers", "price", "in_stock"}
  ELSE IF a = "amazon" THEN {"ranked_offers", "price", "price_availability_details"}
  ELSE {"ranked_offers"}
C24_OnlyWrittenKeys ==
  [][pc # "start" => OnlyOwnKeys(WrittenKeys(analyzer))]_vars
(* A saved Amazon run that wrote price, price_availability_details and     *)
(* ranked_offers of its link and left the Flipkart, JioMart and Croma      *)
(* links of the same item as they were.                                    *)
C24_Witness ==
  /\ analyzer = "amazon" /\ pc = "done" /\ Saved
  /\ {"price", "price_availability_details", "ranked_offers"}
       \subseteq data[1][1].store_links[1].keys
  /\ Len(data[1][1].store_links[1].ranked_offers) > 0
  /\ data[1][1].store_links[1].price # Doc1[1][1].store_links[1].price
  /\ \A j \in 2..4 : data[1][1].store_links[j] = Doc1[1][1].store_links[j]

(* The Flipkart store links the scraper is to leave alone: those with a    *)
(* non-empty ranked_offers list and those whose URL is in the visited-URLs *)
(* file.                                                                   *)
Preserved(d) ==
  {p \in AllPaths(d) :
     /\ IsStoreOf("flipkart", LinkAt(d, p))
     /\ HasOffers(LinkAt(d, p)) \/ LinkAt(d, p).url \in load_visited_urls(visited_file)}

(* C25: the Flipkart scraper does not scrape again a Flipkart store link   *)
(* that has a non-empty ranked_offers list or whose URL is in the          *)
(* visited-URLs file, and does not overwrite its ranked_offers.            *)
C25_ExistingOffersPreserved ==
  [][(analyzer = "flipkart" /\ pc = "loop") =>
       \A p \in Preserved(data) :
         /\ LinkAt(data', p).ranked_offers = LinkAt(data, p).ranked_offers
         /\ ~(Scraped /\ links[idx + 1] = p)]_vars

(* The paths of the selected links. *)
SelectedPaths(sel) == {sel[k] : k \in 1..Len(sel)}
(* The JioMart store links with an extractable SKU. *)
JioMartWithSku(d) ==
  {p \in AllPaths(d) :
     /\ IsStoreOf("jiomart", LinkAt(d, p))
     /\ extract_sku_from_url(LinkAt(d, p).url) # NoneF}

(* C26: in the JioMart scraper with rescrape_all = False a JioMart store   *)
(* link with a non-empty ranked_offers list is never fetched and keeps its *)
(* ranked_offers, and every JioMart link without offers and with an        *)
(* extractable SKU is selected; with rescrape_all = True every JioMart     *)
(* link with an extractable SKU is selected.                               *)
C26_JioMartSelection ==
  [][analyzer = "jiomart" =>
       /\ pc = "start" =>
            \A p \in JioMartWithSku(data) :
              (rescrape_all \/ ~HasOffers(LinkAt(data, p))) => p \in SelectedPaths(links')
       /\ (pc = "loop" /\ ~rescrape_all) =>
            \A p \in AllPaths(data) :
              (IsStoreOf("jiomart", LinkAt(data, p)) /\ HasOffers(LinkAt(data, p))) =>
                /\ LinkAt(data', p).ranked_offers = LinkAt(data, p).ranked_offers
                /\ ~(Scraped /\ links[idx + 1] = p)]_vars

(* The number of URLs scraped since the last progress backup, or since the *)
(* start when none was written.                                            *)
SinceBackup ==
  Len(fetched) - (IF backups = <<>> THEN 0 ELSE backups[Len(backups)])

(* C27: in the Amazon scraper the number of URLs scraped since the last    *)
(* backup, or since the start, never exceeds the backup period (100)       *)
(* without a backup file being written.                                    *)
C27_BackupEveryPeriod == analyzer = "amazon" => SinceBackup <= BackupEvery

(* C28: in rescrape_all mode find_jiomart_entries_needing_offers returns,  *)
(* exactly once each, every store link whose name contains jiomart and     *)
(* whose URL yields a SKU in the store_links of the items of variants,     *)
(* all_matching_products and unmapped, whatever keys the item has.         *)
C28_JioMartTraversal ==
  (analyzer = "jiomart" /\ rescrape_all /\ pc # "start") =>
    /\ SelectedPaths(links) = JioMartWithSku(data)
    /\ \A i, j \in 1..Len(links) : links[i] = links[j] => i = j


(* Every selected link with a URL is in the visited list, and every URL    *)
(* the run scraped has its ranked_offers set.                              *)
AllProcessed ==
  /\ pc # "start"
  /\ \A k \in 1..Len(links) :
       LET link == LinkAt(data, links[k])
       IN link.url # NoUrl =>
            /\ link.url \in load_visited_urls(visited_file)
            /\ (\E i \in 1..Len(fetched) : fetched[i] = link.url) =>
                 \E j \in 1..Len(links) :
                    /\ LinkAt(data, links[j]).url = link.url
                    /\ "ranked_offers" \in LinkAt(data, links[j]).keys

(* C29: in a run of the Amazon function that the user does not interrupt   *)
(* every selected link with a non-empty URL that is not yet visited is     *)
(* eventually processed, its ranked_offers set and its URL appended to the *)
(* visited list, also after a product that is Currently unavailable and    *)
(* has a Bank Offer with a minimum spend.                                  *)
C29_EligibleLinksProcessed ==
  <>(analyzer = "amazon" => (raised = "KeyboardInterrupt" \/ AllProcessed))

====
